---- MODULE Spec2Model ----
(***************************************************************************)
(* FinGear: the three-layer screening pipeline (src/src/screener.py) and   *)
(* the factor engine behind it (src/src/factors.py).                       *)
(*                                                                         *)
(* Numbers.  Python floats are modelled as extended rationals: a value is  *)
(* a record [k, n, d] with k one of "num" (the rational n/d, d > 0),       *)
(* "nan", "pinf", "ninf"; comparisons follow IEEE-754 (every comparison    *)
(* with NaN is false).  Weights are held in hundredths, so the composite   *)
(* fundamental score is held in hundredths of a point (40.00 is 4000).     *)
(* Cash amounts (fcf) are held in units of 10^6 currency units.            *)
(***************************************************************************)
EXTENDS Integers, Sequences, FiniteSets, TLC

VARIABLES
    store,      \* symbol -> the data store's partitions for that symbol
    config,     \* config/parameters.yaml as found on disk
    engine,     \* "none" before FactorEngine.__init__, "ready" after
    weights,    \* FactorEngine.weights
    log,        \* kinds of messages logged so far
    cache,      \* FactorEngine.cache: <<symbol, date>> -> composite
    today,      \* date.today()
    ret,        \* what the last calculate_fundamental_score call returned
    universe,   \* the argument of screen_stocks / _layer1_fundamental_screen
    pc,         \* position of the screener
    idx,        \* loop index inside the current layer
    results,    \* the list a layer's loop appends to
    l1,         \* what _layer1_fundamental_screen returned
    l2,         \* what _layer2_chip_filter returned
    final,      \* what screen_stocks returned
    reads,      \* store reads done by the screener: <<kind, symbol>>
    call,       \* a direct call of one method: its arguments and what it returned
    workers     \* the parallel callers of the engine: position and local values of each

vars == <<store, config, engine, weights, log, cache, today, ret,
          universe, pc, idx, results, l1, l2, final, reads, call, workers>>

----------------------------------------------------------------------------
(* Extended rationals                                                      *)

Num(n, d) == [k |-> "num", n |-> n, d |-> d]
NaN == [k |-> "nan", n |-> 0, d |-> 1]
PosInf == [k |-> "pinf", n |-> 0, d |-> 1]
NegInf == [k |-> "ninf", n |-> 0, d |-> 1]

IsNaN(a) == a.k = "nan"

\* a <= b
VLe(a, b) ==
    IF a.k = "nan" \/ b.k = "nan" THEN FALSE
    ELSE IF a.k = "ninf" \/ b.k = "pinf" THEN TRUE
    ELSE IF a.k = "pinf" \/ b.k = "ninf" THEN FALSE
    ELSE a.n * b.d <= b.n * a.d

\* a < b
VLt(a, b) ==
    IF a.k = "nan" \/ b.k = "nan" THEN FALSE ELSE ~VLe(b, a)

VGe(a, b) == VLe(b, a)
VGt(a, b) == VLt(b, a)

Abs(x) == IF x < 0 THEN -x ELSE x
Sgn(x) == IF x < 0 THEN -1 ELSE IF x > 0 THEN 1 ELSE 0

\* a - b
VSub(a, b) ==
    IF a.k = "nan" \/ b.k = "nan" THEN NaN
    ELSE IF a.k = "pinf" THEN (IF b.k = "pinf" THEN NaN ELSE PosInf)
    ELSE IF a.k = "ninf" THEN (IF b.k = "ninf" THEN NaN ELSE NegInf)
    ELSE IF b.k = "pinf" THEN NegInf
    ELSE IF b.k = "ninf" THEN PosInf
    ELSE Num(a.n * b.d - b.n * a.d, a.d * b.d)

\* (a / b) * 100 on two finite-or-NaN values, as numpy divides: x/0 is +-inf, 0/0 is NaN
VPct(a, b) ==
    IF a.k = "nan" \/ b.k = "nan" THEN NaN
    ELSE IF b.n = 0 THEN (IF a.n > 0 THEN PosInf ELSE IF a.n < 0 THEN NegInf ELSE NaN)
    ELSE Num(100 * a.n * b.d * Sgn(b.n), a.d * Abs(b.n))

SetMin(S) == CHOOSE x \in S : \A y \in S : x <= y
SetMax(S) == CHOOSE x \in S : \A y \in S : x >= y

RECURSIVE SumSeq(_)
SumSeq(s) == IF s = <<>> THEN 0 ELSE Head(s) + SumSeq(Tail(s))

\* the last k elements (all of them when there are fewer), as DataFrame.tail(k)
TailK(s, k) == IF Len(s) <= k THEN s ELSE SubSeq(s, Len(s) - k + 1, Len(s))

----------------------------------------------------------------------------
(* Ordinal scoring                                                         *)

FactorNames == {"roe", "gross_margin_trend", "debt_ratio", "fcf",
                "revenue_yoy", "eps_yoy", "pe_relative"}

scoring_rules ==
    [roe |-> << <<Num(20, 1), 5>>, <<Num(15, 1), 4>>, <<Num(10, 1), 3>>,
                <<Num(5, 1), 2>>, <<NegInf, 1>> >>,
     eps_yoy |-> << <<Num(30, 1), 5>>, <<Num(15, 1), 4>>, <<Num(0, 1), 3>>,
                    <<Num(-10, 1), 2>>, <<NegInf, 1>> >>,
     fcf |-> << <<Num(5000, 1), 5>>, <<Num(1000, 1), 4>>, <<Num(0, 1), 3>>,
                <<Num(-1000, 1), 2>>, <<NegInf, 1>> >>,
     gross_margin_trend |-> << <<Num(20, 10), 5>>, <<Num(5, 10), 4>>, <<Num(-5, 10), 3>>,
                               <<Num(-20, 10), 2>>, <<NegInf, 1>> >>,
     revenue_yoy |-> << <<Num(20, 1), 5>>, <<Num(10, 1), 4>>, <<Num(0, 1), 3>>,
                        <<Num(-5, 1), 2>>, <<NegInf, 1>> >>,
     debt_ratio |-> << <<Num(30, 1), 5>>, <<Num(50, 1), 4>>, <<Num(70, 1), 3>>,
                       <<Num(85, 1), 2>>, <<PosInf, 1>> >>,
     pe_relative |-> << <<Num(-10, 10), 5>>, <<Num(0, 10), 4>>, <<Num(10, 10), 3>>,
                        <<Num(20, 10), 2>>, <<PosInf, 1>> >>]

reverse_factors == {"debt_ratio", "pe_relative"}

\* the scoring with no score for a value that meets no threshold
_score_factor_zero(factor_name, raw_value) ==
    IF factor_name \notin DOMAIN scoring_rules THEN 3
    ELSE LET rules == scoring_rules[factor_name]
             hit(j) == IF factor_name \in reverse_factors
                       THEN VLe(raw_value, rules[j][1])
                       ELSE VGe(raw_value, rules[j][1])
             H == {j \in 1..Len(rules) : hit(j)}
         IN  IF H = {} THEN 0 ELSE rules[SetMin(H)][2]

\* the scoring with the boundaries exclusive
_score_factor_exclusive(factor_name, raw_value) ==
    IF factor_name \notin DOMAIN scoring_rules THEN 3
    ELSE LET rules == scoring_rules[factor_name]
             hit(j) == IF factor_name \in reverse_factors
                       THEN VLt(raw_value, rules[j][1])
                       ELSE VGt(raw_value, rules[j][1])
             H == {j \in 1..Len(rules) : hit(j)}
         IN  IF H = {} THEN 1 ELSE rules[SetMin(H)][2]

\* the scoring with every factor compared as a direct one
_score_factor_direct(factor_name, raw_value) ==
    IF factor_name \notin DOMAIN scoring_rules THEN 3
    ELSE LET rules == scoring_rules[factor_name]
             hit(j) == VGe(raw_value, rules[j][1])
             H == {j \in 1..Len(rules) : hit(j)}
         IN  IF H = {} THEN 1 ELSE rules[SetMin(H)][2]

_score_factor(factor_name, raw_value) ==
    IF factor_name \notin DOMAIN scoring_rules THEN 3
    ELSE LET rules == scoring_rules[factor_name]
             hit(j) == IF factor_name \in reverse_factors
                       THEN VLe(raw_value, rules[j][1])
                       ELSE VGe(raw_value, rules[j][1])
             H == {j \in 1..Len(rules) : hit(j)}
         IN  IF H = {} THEN 1 ELSE rules[SetMin(H)][2]

----------------------------------------------------------------------------
(* The data store as the engine and the screener read it                   *)
(*                                                                         *)
(* store[symbol] is a record of the four partitions of a symbol:           *)
(*   fund  [fail, cols, rows]  quarterly fundamentals; rows are records    *)
(*         with a date and one value per column, cols the columns present  *)
(*   price [fail, bars, pe, tech]  the daily price history: its number of  *)
(*         bars, the statistics of the positive-PE series merged from it,  *)
(*         and the latest values of the indicators computed from it        *)
(*   chip  [fail, rows]   daily institutional net-flow rows                *)
(*   share [fail, rows]   weekly major_ratio values, in hundredths of a %  *)
(* fail marks a partition whose read raises.                               *)

\* the outcome of a call: a returned value or a raised exception
Ret(v) == [ok |-> TRUE, v |-> v]
Raised == [ok |-> FALSE, v |-> NaN]

read_fundamental_data(symbol) == store[symbol].fund
read_symbol_partition(symbol) == store[symbol].price
read_chip_data(symbol) == store[symbol].chip
read_shareholding_data(symbol) == store[symbol].share

\* DataFrame.sort_values('date') on rows with distinct dates
RECURSIVE SortByDate(_)
SortByDate(rows) ==
    IF rows = <<>> THEN <<>>
    ELSE LET m == CHOOSE j \in 1..Len(rows) :
                      \A h \in 1..Len(rows) : rows[j].date <= rows[h].date
             rest == [h \in 1..(Len(rows) - 1) |-> IF h < m THEN rows[h] ELSE rows[h + 1]]
         IN  <<rows[m]>> \o SortByDate(rest)

\* the frame _get_fundamental_data returns, or the read's exception
_get_fundamental_data(symbol) ==
    LET df == read_fundamental_data(symbol)
    IN  IF df.fail THEN [ok |-> FALSE, cols |-> {}, rows |-> <<>>]
        ELSE IF df.rows = <<>> THEN [ok |-> TRUE, cols |-> {}, rows |-> <<>>]
        ELSE [ok |-> TRUE, cols |-> df.cols,
              rows |-> IF "date" \in df.cols THEN SortByDate(df.rows) ELSE df.rows]

\* Series.sum() and Series.mean() of a column over rows: NaN cells are skipped
ColSum(rows, c) ==
    SumSeq([j \in 1..Len(rows) |-> IF IsNaN(rows[j][c]) THEN 0 ELSE rows[j][c].n])
ColCount(rows, c) == Cardinality({j \in 1..Len(rows) : ~IsNaN(rows[j][c])})
ColMean(rows, c) ==
    IF ColCount(rows, c) = 0 THEN NaN ELSE Num(ColSum(rows, c), ColCount(rows, c))

_calculate_roe(symbol) ==
    LET df == _get_fundamental_data(symbol)
        last4 == TailK(df.rows, 4)
        ttm_net_income == ColSum(last4, "net_income")
        avg_equity == ColMean(last4, "equity")
    IN  IF ~df.ok THEN Raised
        ELSE IF df.rows = <<>> \/ Len(df.rows) < 4 THEN Ret(Num(0, 1))
        ELSE IF ~({"net_income", "equity"} \subseteq df.cols) THEN Raised
        ELSE IF \E j \in 1..Len(last4) : VLe(last4[j].equity, Num(0, 1)) THEN Ret(Num(0, 1))
        ELSE IF VLe(avg_equity, Num(0, 1)) THEN Ret(Num(0, 1))
        ELSE IF IsNaN(avg_equity) THEN Ret(NaN)
        ELSE Ret(Num(100 * ttm_net_income * avg_equity.d, avg_equity.n))

_calculate_eps_yoy(symbol) ==
    LET df == _get_fundamental_data(symbol)
        latest_eps == df.rows[Len(df.rows)].eps
        yoy_eps == df.rows[Len(df.rows) - 4].eps
    IN  IF ~df.ok THEN Raised
        ELSE IF df.rows = <<>> \/ "eps" \notin df.cols \/ Len(df.rows) < 5 THEN Ret(Num(0, 1))
        ELSE IF ~IsNaN(yoy_eps) /\ yoy_eps.n = 0
             THEN (IF VGt(latest_eps, Num(0, 1)) THEN Ret(Num(100, 1)) ELSE Ret(Num(0, 1)))
        ELSE IF IsNaN(yoy_eps) \/ IsNaN(latest_eps) THEN Ret(NaN)
        ELSE Ret(Num(100 * (latest_eps.n - yoy_eps.n), Abs(yoy_eps.n)))

_calculate_fcf(symbol) ==
    LET df == _get_fundamental_data(symbol)
        last4 == TailK(df.rows, 4)
    IN  IF ~df.ok THEN Raised
        ELSE IF df.rows = <<>>
                \/ ~({"operating_cash_flow", "capital_expenditure"} \subseteq df.cols)
                \/ Len(df.rows) < 4 THEN Ret(Num(0, 1))
        ELSE Ret(Num(ColSum(last4, "operating_cash_flow")
                     - ColSum(last4, "capital_expenditure"), 1))

_calculate_gross_margin_trend(symbol) ==
    LET df == _get_fundamental_data(symbol)
        margin(j) == VPct(df.rows[j].gross_profit, df.rows[j].revenue)
    IN  IF ~df.ok THEN Raised
        ELSE IF df.rows = <<>> \/ ~({"gross_profit", "revenue"} \subseteq df.cols)
                \/ Len(df.rows) < 5 THEN Ret(Num(0, 1))
        ELSE Ret(VSub(margin(Len(df.rows)), margin(Len(df.rows) - 4)))

_calculate_debt_ratio(symbol) ==
    LET df == _get_fundamental_data(symbol)
        latest == df.rows[Len(df.rows)]
    IN  IF ~df.ok THEN Raised
        ELSE IF df.rows = <<>> \/ ~({"total_liabilities", "total_assets"} \subseteq df.cols)
             THEN Ret(Num(100, 1))
        ELSE IF VGt(latest.total_assets, Num(0, 1))
             THEN Ret(VPct(latest.total_liabilities, latest.total_assets))
        ELSE Ret(Num(100, 1))

_calculate_revenue_yoy(symbol) ==
    LET df == _get_fundamental_data(symbol)
        latest_rev == df.rows[Len(df.rows)].revenue
        yoy_rev == df.rows[Len(df.rows) - 4].revenue
    IN  IF ~df.ok THEN Raised
        ELSE IF df.rows = <<>> \/ "revenue" \notin df.cols \/ Len(df.rows) < 5 THEN Ret(Num(0, 1))
        ELSE IF VLe(yoy_rev, Num(0, 1)) THEN Ret(Num(0, 1))
        ELSE Ret(VPct(VSub(latest_rev, yoy_rev), yoy_rev))

\* the valuation with the neutral value 0.0 where the data do not allow a PE band
_calculate_pe_relative_neutral(symbol) ==
    LET price_df == read_symbol_partition(symbol)
        fund_df == _get_fundamental_data(symbol)
        pe == price_df.pe
    IN  IF price_df.fail \/ ~fund_df.ok THEN Raised
        ELSE IF price_df.bars = 0 \/ fund_df.rows = <<>> \/ "eps" \notin fund_df.cols
                \/ Len(fund_df.rows) < 5 THEN Ret(Num(0, 1))
        ELSE IF "date" \notin fund_df.cols THEN Raised
        ELSE IF pe.npos = 0 THEN Ret(Num(0, 1))
        ELSE IF IsNaN(pe.cur) \/ VLe(pe.cur, Num(0, 1)) THEN Ret(Num(0, 1))
        ELSE IF VGt(pe.std, Num(0, 1))
             THEN Ret(Num((pe.cur.n * pe.mean.d - pe.mean.n * pe.cur.d) * pe.std.d,
                          pe.cur.d * pe.mean.d * pe.std.n))
        ELSE IF VGt(pe.mean, Num(0, 1))
             THEN Ret(Num(pe.cur.n * pe.mean.d, pe.cur.d * pe.mean.n))
        ELSE Ret(Num(1, 1))

\* The PE series merged from the price and fundamentals frames is held by its
\* statistics: price.pe = [npos, cur, mean, std], npos the number of positive-PE
\* observations, cur the PE of the last bar, mean and std those of the series.
\* The merge is on the date column of both frames: fund_df['date'] of line 287 raises
\* a KeyError on a fundamentals frame without it.
_calculate_pe_relative(symbol) ==
    LET price_df == read_symbol_partition(symbol)
        fund_df == _get_fundamental_data(symbol)
        pe == price_df.pe
    IN  IF price_df.fail \/ ~fund_df.ok THEN Raised
        ELSE IF price_df.bars = 0 \/ fund_df.rows = <<>> \/ "eps" \notin fund_df.cols
                \/ Len(fund_df.rows) < 5 THEN Ret(Num(1, 1))
        ELSE IF "date" \notin fund_df.cols THEN Raised
        ELSE IF pe.npos = 0 THEN Ret(Num(1, 1))
        ELSE IF IsNaN(pe.cur) \/ VLe(pe.cur, Num(0, 1)) THEN Ret(Num(2, 1))
        ELSE IF VGt(pe.std, Num(0, 1))
             THEN Ret(Num((pe.cur.n * pe.mean.d - pe.mean.n * pe.cur.d) * pe.std.d,
                          pe.cur.d * pe.mean.d * pe.std.n))
        ELSE IF VGt(pe.mean, Num(0, 1))
             THEN Ret(Num(pe.cur.n * pe.mean.d, pe.cur.d * pe.mean.n))
        ELSE Ret(Num(1, 1))

\* FactorEngine.fundamental_factors: the registered calculation of each factor
fundamental_factors(factor_name, symbol) ==
    CASE factor_name = "roe" -> _calculate_roe(symbol)
      [] factor_name = "gross_margin_trend" -> _calculate_gross_margin_trend(symbol)
      [] factor_name = "debt_ratio" -> _calculate_debt_ratio(symbol)
      [] factor_name = "fcf" -> _calculate_fcf(symbol)
      [] factor_name = "revenue_yoy" -> _calculate_revenue_yoy(symbol)
      [] factor_name = "eps_yoy" -> _calculate_eps_yoy(symbol)
      [] factor_name = "pe_relative" -> _calculate_pe_relative(symbol)

----------------------------------------------------------------------------
(* FactorEngine: construction, weights, composite                          *)

\* the dict's registration order
FactorOrder == <<"roe", "gross_margin_trend", "debt_ratio", "fcf",
                 "revenue_yoy", "eps_yoy", "pe_relative">>

default_weights ==
    [roe |-> 20, eps_yoy |-> 20, fcf |-> 15, gross_margin_trend |-> 15,
     revenue_yoy |-> 10, debt_ratio |-> 10, pe_relative |-> 10]

\* config is [kind, w]: kind "missing" (no parameters.yaml), "unreadable" (open or
\* parse raises), "loaded" with w the screening.factor_weights mapping found
\* (the empty mapping when the key is absent)
EmptyMap == [x \in {} |-> 0]

_load_weights(cfg) ==
    IF cfg.kind = "missing" THEN [w |-> default_weights, logged |-> {"weights_config_missing"}]
    ELSE IF cfg.kind = "unreadable" THEN [w |-> default_weights, logged |-> {"weights_read_failed"}]
    ELSE IF DOMAIN cfg.w = {} THEN [w |-> default_weights, logged |-> {}]
    ELSE [w |-> cfg.w, logged |-> {}]

\* FactorEngine.__init__
Construct ==
    /\ engine = "none"
    /\ engine' = "ready"
    /\ weights' = _load_weights(config).w
    /\ log' = log \cup _load_weights(config).logged
    /\ cache' = EmptyMap
    /\ UNCHANGED <<store, config, today, ret, universe, pc, idx, results, l1, l2, final, reads>>
    /\ UNCHANGED <<call, workers>>

\* step 2 with the try around the whole loop: the factors from the first one that
\* raises onwards are all left at 1
FactorScores_abort(symbol) ==
    [f \in FactorNames |->
        LET pos(g) == CHOOSE j \in 1..Len(FactorOrder) : FactorOrder[j] = g
            r == fundamental_factors(f, symbol)
        IN  IF \E g \in FactorNames : pos(g) <= pos(f) /\ ~fundamental_factors(g, symbol).ok
            THEN 1 ELSE _score_factor(f, r.v)]

\* step 2 of calculate_fundamental_score: each factor's ordinal score, 1 when its
\* calculation raises
FactorScores(symbol) ==
    [f \in FactorNames |->
        LET r == fundamental_factors(f, symbol)
        IN  IF r.ok THEN _score_factor(f, r.v) ELSE 1]

\* the factors whose calculation raised (each is logged as a warning)
FailedFactors(symbol) == {f \in FactorNames : ~fundamental_factors(f, symbol).ok}

\* step 3: sum(scores[f] * weights.get(f, 0) for f in scores if f in weights) * 40
WeightedScore(scores, w) ==
    40 * SumSeq([j \in 1..Len(FactorOrder) |->
                    IF FactorOrder[j] \in DOMAIN w
                    THEN scores[FactorOrder[j]] * w[FactorOrder[j]] ELSE 0])

\* a key that leaves the symbol out
cache_key_dateonly(symbol) == <<0, today>>

\* f"{symbol}_fundamental_{date.today()}": the date is ten characters wide, so two
\* keys are equal only when both the symbol text and the date are
cache_key(symbol) == <<symbol, today>>

\* the partitions step 2 reads for a symbol: every factor reads the fundamentals,
\* pe_relative the price history as well
PartitionsRead(symbol) == {<<"fundamentals", symbol>>, <<"price", symbol>>}

\* the call without the look-up of lines 96-97
calculate_fundamental_score_uncached(symbol) ==
    /\ engine = "ready"
    /\ LET final_score == WeightedScore(FactorScores(symbol), weights)
       IN  /\ cache' = [key \in DOMAIN cache \cup {cache_key(symbol)} |->
                           IF key = cache_key(symbol) THEN final_score ELSE cache[key]]
           /\ ret' = <<symbol, final_score, "computed", PartitionsRead(symbol)>>
           /\ log' = log \cup (IF FailedFactors(symbol) = {} THEN {} ELSE {"factor_failed"})
    /\ UNCHANGED <<store, config, engine, weights, today, universe, pc, idx, results,
                   l1, l2, final, reads>>
    /\ UNCHANGED <<call, workers>>

\* ret' is what the call returns and what it did: the symbol, the value returned,
\* whether step 2 was run or the cache answered, and the partitions read
calculate_fundamental_score(symbol) ==
    /\ engine = "ready"
    /\ IF cache_key(symbol) \in DOMAIN cache
       THEN /\ ret' = <<symbol, cache[cache_key(symbol)], "cached", {}>>
            /\ UNCHANGED <<cache, log>>
       ELSE LET final_score == WeightedScore(FactorScores(symbol), weights)
            IN  /\ cache' = [key \in DOMAIN cache \cup {cache_key(symbol)} |->
                                IF key = cache_key(symbol) THEN final_score ELSE cache[key]]
                /\ ret' = <<symbol, final_score, "computed", PartitionsRead(symbol)>>
                /\ log' = log \cup (IF FailedFactors(symbol) = {} THEN {} ELSE {"factor_failed"})
    /\ UNCHANGED <<store, config, engine, weights, today, universe, pc, idx, results,
                   l1, l2, final, reads>>
    /\ UNCHANGED <<call, workers>>

\* calculate_fundamental_details is called by the screener but is not defined by the
\* FactorEngine of factors.py; it is modelled from the specification: the composite
\* and the per-factor breakdown, failures of single factors contained as in
\* calculate_fundamental_score.  store[symbol].fault marks a symbol whose scoring
\* raises as a whole (the per-symbol batch failure of the specification).
calculate_fundamental_details(symbol) ==
    IF store[symbol].fault THEN [ok |-> FALSE, total_score |-> 0, factors |-> EmptyMap]
    ELSE LET scores == FactorScores(symbol)
         IN  [ok |-> TRUE,
              total_score |-> WeightedScore(scores, weights),
              factors |-> [f \in FactorNames |-> [score |-> scores[f]]]]

----------------------------------------------------------------------------
(* StockScreener, Layer 1                                                  *)

\* head(30)
TopN == 30

\* str(x): the text of x, which is not x
Str(x) == <<"str", x>>

\* get_stock_name falls back to the symbol itself
get_stock_name(symbol) == symbol

\* screen_stocks, up to the call of _layer1_fundamental_screen
screen_stocks ==
    /\ engine = "ready"
    /\ pc = "idle"
    /\ pc' = "L1"
    /\ idx' = 1
    /\ results' = <<>>
    /\ UNCHANGED <<store, config, engine, weights, log, cache, today, ret, universe,
                   l1, l2, final, reads>>
    /\ UNCHANGED <<call, workers>>

\* a gate that lets the middle valuation tier through
PassesGate_lax(pe_score) == ~(pe_score < 3)

\* a gate that keeps the cheapest tier only
PassesGate_strict(pe_score) == ~(pe_score < 5)

\* the valuation gate: only pe_relative scores 4 and 5 stay
PassesGate(pe_score) == ~(pe_score < 4)

\* factors.get('pe_relative', {}).get('score', 1)
PeScoreOf(factors) ==
    IF "pe_relative" \in DOMAIN factors THEN factors["pe_relative"].score ELSE 1

\* one iteration of the loop of _layer1_fundamental_screen
L1Step ==
    /\ pc = "L1"
    /\ idx <= Len(universe)
    /\ LET symbol == universe[idx]
           details == calculate_fundamental_details(symbol)
           pe_score == PeScoreOf(details.factors)
       IN  IF ~details.ok
           THEN /\ log' = log \cup {"l1_error"}
                /\ results' = results
           ELSE /\ log' = log
                /\ results' =
                     IF PassesGate(pe_score)
                     THEN Append(results,
                                 [symbol |-> symbol,
                                  stock_name |-> get_stock_name(symbol),
                                  fundamental_score |-> details.total_score,
                                  pe_score |-> pe_score,
                                  fundamental_details |-> details.factors])
                     ELSE results
    /\ idx' = idx + 1
    /\ UNCHANGED <<store, config, engine, weights, cache, today, ret, universe, pc,
                   l1, l2, final, reads>>
    /\ UNCHANGED <<call, workers>>

\* The orders sort_values('fundamental_score', ascending=False) can leave rows in:
\* the default sort is not stable, so rows of equal score come in any order.
RECURSIVE SortedOrders(_, _)
SortedOrders(rows, S) ==
    IF S = {} THEN {<<>>}
    ELSE LET top == {j \in S : \A h \in S :
                        rows[j].fundamental_score >= rows[h].fundamental_score}
         IN  UNION {{<<rows[j]>> \o t : t \in SortedOrders(rows, S \ {j})} : j \in top}

sort_values(rows) == SortedOrders(rows, 1..Len(rows))

\* the last n rows instead of the first
head_tail(rows, n) == IF Len(rows) <= n THEN rows ELSE SubSeq(rows, Len(rows) - n + 1, Len(rows))

head(rows, n) == IF Len(rows) <= n THEN rows ELSE SubSeq(rows, 1, n)

\* Layer 1 handing an empty table on to Layer 2
L1Return_on ==
    /\ pc = "L1"
    /\ idx > Len(universe)
    /\ \E sorted \in sort_values(results) : l1' = head(sorted, TopN)
    /\ pc' = "L2"
    /\ idx' = 1
    /\ results' = <<>>
    /\ UNCHANGED <<store, config, engine, weights, cache, today, ret, universe, l2, reads>>
    /\ UNCHANGED <<final, log, call, workers>>

\* Layer 1 returning once any symbol has been scored, the rest of the universe unseen
L1Return_early ==
    /\ pc = "L1"
    /\ idx > 1
    /\ IF results = <<>>
       THEN /\ l1' = <<>>
            /\ final' = <<>>
            /\ pc' = "done"
            /\ log' = log \cup {"l1_no_candidates"}
       ELSE /\ \E sorted \in sort_values(results) : l1' = head(sorted, TopN)
            /\ pc' = "L2"
            /\ UNCHANGED <<final, log>>
    /\ idx' = 1
    /\ results' = <<>>
    /\ UNCHANGED <<store, config, engine, weights, cache, today, ret, universe, l2, reads>>
    /\ UNCHANGED <<call, workers>>

\* the end of _layer1_fundamental_screen and the test screen_stocks makes of it
L1Return ==
    /\ pc = "L1"
    /\ idx > Len(universe)
    /\ IF results = <<>>
       THEN /\ l1' = <<>>
            /\ final' = <<>>
            /\ pc' = "done"
            /\ log' = log \cup {"l1_no_candidates"}
       ELSE /\ \E sorted \in sort_values(results) : l1' = head(sorted, TopN)
            /\ pc' = "L2"
            /\ UNCHANGED <<final, log>>
    /\ idx' = 1
    /\ results' = <<>>
    /\ UNCHANGED <<store, config, engine, weights, cache, today, ret, universe, l2, reads>>
    /\ UNCHANGED <<call, workers>>

----------------------------------------------------------------------------
(* StockScreener, Layer 2: the chip score                                  *)

\* the whole frame taken for the recent days
recent_5d_all(chip_df) ==
    IF chip_df.rows = <<>> \/ Len(chip_df.rows) < 5 THEN <<>> ELSE chip_df.rows

\* recent_5d: the last five net-flow rows, empty when there are fewer than five
recent_5d(chip_df) ==
    IF chip_df.rows = <<>> \/ Len(chip_df.rows) < 5 THEN <<>> ELSE TailK(chip_df.rows, 5)

\* the days with trust_net > 0 among the rows up to j, consecutive or not
RECURSIVE TrustStreak_count(_, _)
TrustStreak_count(recent, j) ==
    IF j = 0 THEN 0
    ELSE (IF recent[j].trust_net > 0 THEN 1 ELSE 0) + TrustStreak_count(recent, j - 1)

\* consecutive days with trust_net > 0, counted from row j backwards
RECURSIVE TrustStreak(_, _)
TrustStreak(recent, j) ==
    IF j = 0 THEN 0
    ELSE IF recent[j].trust_net > 0 THEN 1 + TrustStreak(recent, j - 1)
    ELSE 0

trust_consecutive(recent) == TrustStreak(recent, Len(recent))

ColTotal(recent, c) == SumSeq([j \in 1..Len(recent) |-> recent[j][c]])

TrustPoints(recent) ==
    LET n == trust_consecutive(recent)
    IN  IF n >= 5 THEN [pts |-> 30, label |-> <<n, "consecutive_buys_full">>]
        ELSE IF n >= 3 THEN [pts |-> 20, label |-> <<n, "consecutive_buys">>]
        ELSE IF n >= 1 THEN [pts |-> 10, label |-> <<n, "consecutive_buys">>]
        ELSE [pts |-> 0, label |-> <<0, "no_buying">>]

ForeignPoints(recent) ==
    IF recent = <<>> THEN [pts |-> 0, label |-> "no_data"]
    ELSE LET foreign_5d_avg == Num(ColTotal(recent, "foreign_net"), Len(recent))
             foreign_latest == recent[Len(recent)].foreign_net
         IN  IF VGt(foreign_5d_avg, Num(1000, 1)) /\ foreign_latest > 0
             THEN [pts |-> 25, label |-> "active_buying"]
             ELSE IF VGt(foreign_5d_avg, Num(0, 1)) THEN [pts |-> 15, label |-> "mild_buying"]
             ELSE IF VGt(foreign_5d_avg, Num(-1000, 1)) THEN [pts |-> 5, label |-> "small_selling"]
             ELSE [pts |-> 0, label |-> "heavy_selling"]

DealerPoints(recent) ==
    IF recent = <<>> THEN [pts |-> 0, label |-> "no_data"]
    ELSE LET dealer_5d_total == ColTotal(recent, "dealer_net")
         IN  IF dealer_5d_total > 0 THEN [pts |-> 15, label |-> "buying"]
             ELSE IF dealer_5d_total > -500 THEN [pts |-> 8, label |-> "neutral"]
             ELSE [pts |-> 0, label |-> "selling"]

TotalPoints(recent) ==
    IF recent = <<>> THEN [pts |-> 0, label |-> "no_data"]
    ELSE LET total_5d_sum == ColTotal(recent, "total_net")
         IN  IF total_5d_sum > 5000 THEN [pts |-> 20, label |-> "strong"]
             ELSE IF total_5d_sum > 1000 THEN [pts |-> 15, label |-> "steady"]
             ELSE IF total_5d_sum > 0 THEN [pts |-> 10, label |-> "weak"]
             ELSE [pts |-> 0, label |-> "negative"]

\* major_ratio is held in hundredths of a percent: 0.5 is 50
SharePoints(share_df) ==
    IF share_df.rows # <<>> /\ Len(share_df.rows) >= 2
    THEN LET ratio_change == share_df.rows[Len(share_df.rows)]
                             - share_df.rows[Len(share_df.rows) - 1]
         IN  IF ratio_change > 50 THEN [pts |-> 10, label |-> <<"+", ratio_change>>]
             ELSE IF ratio_change >= 0 THEN [pts |-> 5, label |-> <<"+", ratio_change>>]
             ELSE [pts |-> 0, label |-> <<"", ratio_change>>]
    ELSE [pts |-> 0, label |-> "no_data"]

\* chip_score and chip_details of one candidate, given the two frames read
ChipEval(chip_df, share_df) ==
    LET recent == recent_5d(chip_df)
    IN  [chip_score |-> 0 + TrustPoints(recent).pts + ForeignPoints(recent).pts
                        + DealerPoints(recent).pts + TotalPoints(recent).pts
                        + SharePoints(share_df).pts,
         chip_details |-> Str([trust_days |-> TrustPoints(recent).label,
                               foreign_status |-> ForeignPoints(recent).label,
                               dealer_status |-> DealerPoints(recent).label,
                               total_strength |-> TotalPoints(recent).label,
                               share_trend |-> SharePoints(share_df).label])]

\* row[field] = value for every field of extra, the other fields of row kept
SetFields(row, extra) ==
    [f \in DOMAIN row \cup DOMAIN extra |-> IF f \in DOMAIN extra THEN extra[f] ELSE row[f]]

\* the row _layer2_chip_filter appends for a candidate row
L2Row(row, ev) ==
    SetFields(row,
              IF "fundamental_details" \in DOMAIN row
              THEN [chip_score |-> ev.chip_score, chip_details |-> ev.chip_details,
                    fundamental_details |-> Str(row.fundamental_details)]
              ELSE [chip_score |-> ev.chip_score, chip_details |-> ev.chip_details])

\* the pass mark of the docstring of _layer2_chip_filter, applied
passed_append_threshold(passed, row) == IF row.chip_score >= 60 THEN Append(passed, row) ELSE passed

\* passed.append(row): every row is kept
passed_append(passed, row) == Append(passed, row)

\* one iteration of the loop of _layer2_chip_filter; a store read that raises is
\* not caught and ends screen_stocks
L2Step ==
    /\ pc = "L2"
    /\ idx <= Len(l1)
    /\ LET row == l1[idx]
           symbol == row.symbol
           chip_df == read_chip_data(symbol)
           share_df == read_shareholding_data(symbol)
       IN  IF chip_df.fail
           THEN /\ pc' = "raised"
                /\ reads' = reads \cup {<<"chip", symbol>>}
                /\ UNCHANGED <<results, idx, log>>
           ELSE IF share_df.fail
           THEN /\ pc' = "raised"
                /\ reads' = reads \cup {<<"chip", symbol>>, <<"share", symbol>>}
                /\ log' = log \cup (IF recent_5d(chip_df) = <<>> THEN {"chip_insufficient"} ELSE {})
                /\ UNCHANGED <<results, idx>>
           ELSE /\ results' = passed_append(results, L2Row(row, ChipEval(chip_df, share_df)))
                /\ reads' = reads \cup {<<"chip", symbol>>, <<"share", symbol>>}
                /\ log' = log \cup (IF recent_5d(chip_df) = <<>> THEN {"chip_insufficient"} ELSE {})
                /\ idx' = idx + 1
                /\ pc' = pc
    /\ UNCHANGED <<store, config, engine, weights, cache, today, ret, universe, l1, l2, final>>
    /\ UNCHANGED <<call, workers>>

\* the end of _layer2_chip_filter and the test screen_stocks makes of it
L2Return ==
    /\ pc = "L2"
    /\ idx > Len(l1)
    /\ l2' = results
    /\ IF results = <<>>
       THEN /\ final' = <<>>
            /\ pc' = "done"
            /\ log' = log \cup {"l2_no_candidates"}
       ELSE /\ pc' = "L3"
            /\ UNCHANGED <<final, log>>
    /\ idx' = 1
    /\ results' = <<>>
    /\ UNCHANGED <<store, config, engine, weights, cache, today, ret, universe, l1, reads>>
    /\ UNCHANGED <<call, workers>>

----------------------------------------------------------------------------
(* StockScreener, Layer 3: the technical score and the signal              *)
(*                                                                         *)
(* price.tech holds the latest values of what Layer 3 computes from the    *)
(* price frame: close (price), the 20/60/120-bar means, the 5-bar and the  *)
(* preceding-20-bar volume means (vol5, vol20), and what pandas_ta gives:  *)
(* macd, rsi, kd, bb, each <<>> when the indicator is None or empty and a  *)
(* one-element sequence otherwise.  tech.fail marks a frame on which the   *)
(* computation raises.                                                     *)

MinBars == 120

\* the moving-average factor worth 30 points
MaPoints_heavy(t) ==
    IF t.price > t.ma20 /\ t.ma20 > t.ma60 /\ t.ma60 > t.ma120
    THEN [pts |-> 30, label |-> "perfect_bull"]
    ELSE IF t.price > t.ma20 /\ t.ma20 > t.ma60 THEN [pts |-> 20, label |-> "strong_bull"]
    ELSE IF t.price > t.ma60 THEN [pts |-> 15, label |-> "above_quarter_line"]
    ELSE IF t.price > t.ma120 THEN [pts |-> 10, label |-> "above_half_year_line"]
    ELSE [pts |-> 0, label |-> "bear"]

MaPoints(t) ==
    IF t.price > t.ma20 /\ t.ma20 > t.ma60 /\ t.ma60 > t.ma120
    THEN [pts |-> 25, label |-> "perfect_bull"]
    ELSE IF t.price > t.ma20 /\ t.ma20 > t.ma60 THEN [pts |-> 20, label |-> "strong_bull"]
    ELSE IF t.price > t.ma60 THEN [pts |-> 15, label |-> "above_quarter_line"]
    ELSE IF t.price > t.ma120 THEN [pts |-> 10, label |-> "above_half_year_line"]
    ELSE [pts |-> 0, label |-> "bear"]

Bias60(t) == VPct(Num(t.price - t.ma60, 1), Num(t.ma60, 1))

MacdPoints(t) ==
    IF t.macd = <<>> THEN [pts |-> 0, label |-> "no_data"]
    ELSE LET m == t.macd[1]
         IN  IF m.line > m.signal /\ m.hist > 0
             THEN (IF m.hist > m.prev_hist THEN [pts |-> 20, label |-> "strong_golden_cross"]
                   ELSE [pts |-> 15, label |-> "golden_cross"])
             ELSE IF m.line > 0 THEN [pts |-> 10, label |-> "bull_zone"]
             ELSE [pts |-> 0, label |-> "bear_zone"]

RsiPoints(t) ==
    IF t.rsi = <<>> THEN [pts |-> 0, label |-> "no_data"]
    ELSE LET rsi_value == t.rsi[1]
         IN  IF 40 <= rsi_value /\ rsi_value <= 70 THEN [pts |-> 15, label |-> <<rsi_value, "healthy">>]
             ELSE IF 30 <= rsi_value /\ rsi_value < 40
                  THEN [pts |-> 10, label |-> <<rsi_value, "near_oversold">>]
             ELSE IF rsi_value > 70 THEN [pts |-> 5, label |-> <<rsi_value, "overbought">>]
             ELSE [pts |-> 0, label |-> <<rsi_value, "oversold">>]

\* the stochastic factor without its low-range case
KdPoints_nolow(t) ==
    IF t.kd = <<>> THEN [pts |-> 0, label |-> "no_data"]
    ELSE LET k == t.kd[1].k
             d == t.kd[1].d
         IN  IF k > d /\ k < 80 THEN [pts |-> 15, label |-> <<k, "golden_cross">>]
             ELSE IF k > d THEN [pts |-> 10, label |-> <<k, "golden_cross_overbought">>]
             ELSE [pts |-> 0, label |-> <<k, "dead_cross">>]

KdPoints(t) ==
    IF t.kd = <<>> THEN [pts |-> 0, label |-> "no_data"]
    ELSE LET k == t.kd[1].k
             d == t.kd[1].d
         IN  IF k > d /\ k < 80 THEN [pts |-> 15, label |-> <<k, "golden_cross">>]
             ELSE IF k > d THEN [pts |-> 10, label |-> <<k, "golden_cross_overbought">>]
             ELSE IF 20 <= k /\ k <= 50 THEN [pts |-> 8, label |-> <<k, "low_range">>]
             ELSE [pts |-> 0, label |-> <<k, "dead_cross">>]

\* recent_5d_vol > prev_20d_vol * 1.5, * 1.2, * 1
VolumePoints(t) ==
    IF 10 * t.vol5 > 15 * t.vol20 THEN [pts |-> 15, label |-> "surge"]
    ELSE IF 10 * t.vol5 > 12 * t.vol20 THEN [pts |-> 12, label |-> "rising"]
    ELSE IF t.vol5 > t.vol20 THEN [pts |-> 8, label |-> "mild_rise"]
    ELSE [pts |-> 0, label |-> "shrinking"]

BbandsPoints(t) ==
    IF t.bb = <<>> THEN [pts |-> 0, label |-> "no_data"]
    ELSE LET b == t.bb[1]
         IN  IF b.lower < t.price /\ t.price < b.middle THEN [pts |-> 10, label |-> "lower_half"]
             ELSE IF b.middle < t.price /\ 2 * t.price < b.middle + b.upper
                  THEN [pts |-> 8, label |-> "mid_upper"]
             ELSE IF t.price < b.lower THEN [pts |-> 5, label |-> "below_lower"]
             ELSE [pts |-> 0, label |-> "near_upper"]

TechScore(t) ==
    0 + MaPoints(t).pts + MacdPoints(t).pts + RsiPoints(t).pts + KdPoints(t).pts
      + VolumePoints(t).pts + BbandsPoints(t).pts

\* the mapping with the top boundary exclusive
SignalOf_exclusive(tech_score, bias_60) ==
    IF tech_score > 65 THEN "STRONG_BUY"
    ELSE IF tech_score >= 50 THEN "BUY"
    ELSE IF tech_score >= 35 THEN "WATCH"
    ELSE IF VGt(bias_60, Num(20, 1)) THEN "OVERBOUGHT_REDUCE"
    ELSE "HOLD"

\* the signal of a scored candidate
SignalOf(tech_score, bias_60) ==
    IF tech_score >= 65 THEN "STRONG_BUY"
    ELSE IF tech_score >= 50 THEN "BUY"
    ELSE IF tech_score >= 35 THEN "WATCH"
    ELSE IF VGt(bias_60, Num(20, 1)) THEN "OVERBOUGHT_REDUCE"
    ELSE "HOLD"

\* the fields Layer 3 sets on the row of a candidate with enough bars
TechFields(t) ==
    [bias_60 |-> Bias60(t),
     k |-> IF t.kd = <<>> THEN 0 ELSE t.kd[1].k,
     d |-> IF t.kd = <<>> THEN 0 ELSE t.kd[1].d,
     tech_score |-> TechScore(t),
     tech_details |-> Str([ma_trend |-> MaPoints(t).label, bias_60 |-> Bias60(t),
                           macd |-> MacdPoints(t).label, rsi |-> RsiPoints(t).label,
                           kd |-> KdPoints(t).label, volume |-> VolumePoints(t).label,
                           bbands |-> BbandsPoints(t).label]),
     signal |-> SignalOf(TechScore(t), Bias60(t))]

\* the fields Layer 3 sets on the row of a candidate without enough bars
InsufficientFields == [signal |-> "DATA_INSUFFICIENT", tech_score |-> 0]

\* the gate with the boundary on the wrong side
HasEnoughBars_strict(df) == ~(df.bars = 0 \/ df.bars <= MinBars)

HasEnoughBars(df) == ~(df.bars = 0 \/ df.bars < MinBars)

\* an iteration whose failure ends the loop
L3Step_abort ==
    /\ pc = "L3"
    /\ idx <= Len(l2)
    /\ LET row == l2[idx]
           symbol == row.symbol
           df == read_symbol_partition(symbol)
       IN  /\ reads' = reads \cup {<<"price_l3", symbol>>}
           /\ IF df.fail \/ (HasEnoughBars(df) /\ df.tech.fail)
              THEN /\ log' = log \cup {"l3_error"}
                   /\ results' = results
                   /\ idx' = Len(l2) + 1
              ELSE /\ log' = log
                   /\ results' = Append(results,
                                        SetFields(row, IF HasEnoughBars(df)
                                                       THEN TechFields(df.tech)
                                                       ELSE InsufficientFields))
                   /\ idx' = idx + 1
    /\ UNCHANGED <<store, config, engine, weights, cache, today, ret, universe, pc,
                   l1, l2, final>>
    /\ UNCHANGED <<call, workers>>

\* one iteration of the loop of _layer3_technical_position
L3Step ==
    /\ pc = "L3"
    /\ idx <= Len(l2)
    /\ LET row == l2[idx]
           symbol == row.symbol
           df == read_symbol_partition(symbol)
       IN  /\ reads' = reads \cup {<<"price_l3", symbol>>}
           /\ IF df.fail
              THEN /\ log' = log \cup {"l3_error"}
                   /\ results' = results
              ELSE IF ~HasEnoughBars(df)
              THEN /\ log' = log
                   /\ results' = Append(results, SetFields(row, InsufficientFields))
              ELSE IF df.tech.fail
              THEN /\ log' = log \cup {"l3_error"}
                   /\ results' = results
              ELSE /\ log' = log
                   /\ results' = Append(results, SetFields(row, TechFields(df.tech)))
    /\ idx' = idx + 1
    /\ UNCHANGED <<store, config, engine, weights, cache, today, ret, universe, pc,
                   l1, l2, final>>
    /\ UNCHANGED <<call, workers>>

RECURSIVE Reversed(_)
Reversed(rows) == IF rows = <<>> THEN <<>> ELSE Append(Reversed(Tail(rows)), Head(rows))

\* the table built bottom-up
L3Table_reversed(rows) == Reversed(rows)

\* pd.DataFrame(results): the rows in the order they were appended
L3Table(rows) == rows

\* the end of _layer3_technical_position and of screen_stocks
L3Return ==
    /\ pc = "L3"
    /\ idx > Len(l2)
    /\ final' = L3Table(results)
    /\ pc' = "done"
    /\ idx' = 1
    /\ results' = <<>>
    /\ UNCHANGED <<store, config, engine, weights, log, cache, today, ret, universe,
                   l1, l2, reads>>
    /\ UNCHANGED <<call, workers>>

----------------------------------------------------------------------------
(* Store contents the model runs on                                        *)

AllCols == {"date", "net_income", "equity", "eps", "revenue", "gross_profit",
            "total_assets", "total_liabilities", "operating_cash_flow",
            "capital_expenditure"}

\* one quarterly record; gp is given as a value, the other amounts as integers
Q(date, ni, eq, eps, rev, gp, ta, tl, ocf, capex) ==
    [date |-> date, net_income |-> Num(ni, 1), equity |-> Num(eq, 1), eps |-> Num(eps, 1),
     revenue |-> Num(rev, 1), gross_profit |-> gp, total_assets |-> Num(ta, 1),
     total_liabilities |-> Num(tl, 1), operating_cash_flow |-> Num(ocf, 1),
     capital_expenditure |-> Num(capex, 1)]

\* Five quarters whose factors land in the ordinal levels lv = [roe, eps, fcf, gm,
\* rev, debt], each 1..5, levels 2..5 exactly on the threshold of the scoring table:
\* ROE 4/8/12/16/20 %, EPS YoY -15/-10/0/15/30 %, FCF -1200/-1000/0/1000/5000,
\* margin change -3/-2/-0.5/+0.5/+2 points, revenue YoY -6/-5/0/10/20 %,
\* debt ratio 90/85/70/50/30 %.
LatestEps == <<85, 90, 100, 115, 130>>
QuarterOcf == <<-300, -250, 0, 250, 1250>>
LatestRev == <<94, 95, 100, 110, 120>>
LatestMargin == <<270, 280, 295, 305, 320>>
Liabilities == <<90, 85, 70, 50, 30>>

FundRows(lv) ==
    LET old == Q(1, lv.roe, 100, 100, 100, Num(30, 1), 100, 50, QuarterOcf[lv.fcf], 0)
        mid(date) == [old EXCEPT !.date = date]
        new == Q(5, lv.roe, 100, LatestEps[lv.eps], LatestRev[lv.rev],
                 Num(LatestRev[lv.rev] * LatestMargin[lv.gm], 1000), 100,
                 Liabilities[lv.debt], QuarterOcf[lv.fcf], 0)
    IN  <<old, mid(2), mid(3), mid(4), new>>

Levels(roe, eps, fcf, gm, rev, debt) ==
    [roe |-> roe, eps |-> eps, fcf |-> fcf, gm |-> gm, rev |-> rev, debt |-> debt]

FundOf(lv) == [fail |-> FALSE, cols |-> AllCols, rows |-> FundRows(lv)]
FundEmpty == [fail |-> FALSE, cols |-> {}, rows |-> <<>>]
FundFail == [fail |-> TRUE, cols |-> {}, rows |-> <<>>]
\* three quarters only
FundShort == [fail |-> FALSE, cols |-> AllCols,
              rows |-> SubSeq(FundRows(Levels(5, 5, 5, 5, 5, 5)), 3, 5)]
\* no net_income column
FundNoIncome == [fail |-> FALSE, cols |-> AllCols \ {"net_income"},
                 rows |-> FundRows(Levels(5, 5, 5, 5, 5, 5))]
\* date, net_income, equity and eps only, every value NaN
FundAllNaN ==
    [fail |-> FALSE, cols |-> {"date", "net_income", "equity", "eps"},
     rows |-> [j \in 1..5 |->
                 [date |-> j, net_income |-> NaN, equity |-> NaN, eps |-> NaN,
                  revenue |-> NaN, gross_profit |-> NaN, total_assets |-> NaN,
                  total_liabilities |-> NaN, operating_cash_flow |-> NaN,
                  capital_expenditure |-> NaN]]]
\* the same five quarters stored latest first
FundReversed(lv) ==
    [fail |-> FALSE, cols |-> AllCols, rows |-> [j \in 1..5 |-> FundRows(lv)[6 - j]]]
\* no revenue a year ago, a negative equity in the last four quarters
FundDegenerate ==
    [fail |-> FALSE, cols |-> AllCols,
     rows |-> [j \in 1..5 |->
                 IF j = 1 THEN [FundRows(Levels(5, 5, 5, 5, 5, 5))[1] EXCEPT !.revenue = Num(0, 1)]
                 ELSE IF j = 3 THEN [FundRows(Levels(5, 5, 5, 5, 5, 5))[3] EXCEPT !.equity = Num(-10, 1)]
                 ELSE FundRows(Levels(5, 5, 5, 5, 5, 5))[j]]]

\* PE statistics: mean 15, deviation 5, the current PE 30/25/20/15/10 for level 1..5
CurrentPe == <<30, 25, 20, 15, 10>>
PeOf(level) == [npos |-> 100, cur |-> Num(CurrentPe[level], 1), mean |-> Num(15, 1),
                std |-> Num(5, 1)]
PeNoPositive == [npos |-> 0, cur |-> Num(-8, 1), mean |-> NaN, std |-> NaN]
PeNegativeNow == [npos |-> 40, cur |-> Num(-8, 1), mean |-> Num(15, 1), std |-> Num(5, 1)]
PeNaNNow == [npos |-> 40, cur |-> NaN, mean |-> Num(15, 1), std |-> Num(5, 1)]
\* a constant PE series: deviation 0, current PE equal to the mean
PeFlat == [npos |-> 100, cur |-> Num(15, 1), mean |-> Num(15, 1), std |-> Num(0, 1)]

\* the latest indicator values, by sub-score case
MaVariants ==
    {[price |-> 100, ma20 |-> 95, ma60 |-> 90, ma120 |-> 85],
     [price |-> 100, ma20 |-> 90, ma60 |-> 80, ma120 |-> 70],
     [price |-> 100, ma20 |-> 95, ma60 |-> 90, ma120 |-> 92],
     [price |-> 100, ma20 |-> 100, ma60 |-> 90, ma120 |-> 85],
     [price |-> 120, ma20 |-> 125, ma60 |-> 100, ma120 |-> 95],
     [price |-> 121, ma20 |-> 125, ma60 |-> 100, ma120 |-> 95],
     [price |-> 100, ma20 |-> 105, ma60 |-> 110, ma120 |-> 95],
     [price |-> 100, ma20 |-> 105, ma60 |-> 110, ma120 |-> 120]}
MacdVariants ==
    {<<>>,
     <<[line |-> 2, signal |-> 1, hist |-> 1, prev_hist |-> 0]>>,
     <<[line |-> 2, signal |-> 1, hist |-> 1, prev_hist |-> 1]>>,
     <<[line |-> 1, signal |-> 2, hist |-> -1, prev_hist |-> 0]>>,
     <<[line |-> -1, signal |-> 0, hist |-> -1, prev_hist |-> 0]>>}
RsiVariants == {<<>>, <<40>>, <<70>>, <<39>>, <<71>>, <<29>>}
KdVariants ==
    {<<>>, <<[k |-> 79, d |-> 40]>>, <<[k |-> 80, d |-> 70]>>, <<[k |-> 50, d |-> 60]>>,
     <<[k |-> 51, d |-> 60]>>}
VolVariants ==
    {[vol5 |-> 16, vol20 |-> 10], [vol5 |-> 15, vol20 |-> 10], [vol5 |-> 12, vol20 |-> 10],
     [vol5 |-> 10, vol20 |-> 10]}
\* the bands as offsets from the latest close
BbVariants ==
    {<<>>,
     <<[upper |-> 20, middle |-> 5, lower |-> -10]>>,
     <<[upper |-> 10, middle |-> -5, lower |-> -20]>>,
     <<[upper |-> 30, middle |-> 15, lower |-> 5]>>,
     <<[upper |-> 5, middle |-> -10, lower |-> -25]>>,
     <<[upper |-> 30, middle |-> 15, lower |-> 0]>>}

Tech(ma, macd, rsi, kd, vol, bb) ==
    [fail |-> FALSE, price |-> ma.price, ma20 |-> ma.ma20, ma60 |-> ma.ma60,
     ma120 |-> ma.ma120, macd |-> macd, rsi |-> rsi, kd |-> kd,
     vol5 |-> vol.vol5, vol20 |-> vol.vol20,
     bb |-> IF bb = <<>> THEN <<>>
            ELSE <<[upper |-> ma.price + bb[1].upper, middle |-> ma.price + bb[1].middle,
                    lower |-> ma.price + bb[1].lower]>>]

TechSpace ==
    {Tech(ma, macd, rsi, kd, vol, bb) :
        ma \in MaVariants, macd \in MacdVariants, rsi \in RsiVariants, kd \in KdVariants,
        vol \in VolVariants, bb \in BbVariants}

\* every sub-score at its best: 100 points
TechBull ==
    Tech([price |-> 100, ma20 |-> 95, ma60 |-> 90, ma120 |-> 85],
         <<[line |-> 2, signal |-> 1, hist |-> 1, prev_hist |-> 0]>>, <<40>>,
         <<[k |-> 79, d |-> 40]>>, [vol5 |-> 16, vol20 |-> 10],
         <<[upper |-> 20, middle |-> 5, lower |-> -10]>>)
\* 15 + 15 + 10 + 10 + 8 + 0: 58 points
TechMid ==
    Tech([price |-> 100, ma20 |-> 100, ma60 |-> 90, ma120 |-> 85],
         <<[line |-> 2, signal |-> 1, hist |-> 1, prev_hist |-> 1]>>, <<39>>,
         <<[k |-> 80, d |-> 70]>>, [vol5 |-> 12, vol20 |-> 10],
         <<[upper |-> 5, middle |-> -10, lower |-> -25]>>)
\* nothing scores
TechBear ==
    Tech([price |-> 100, ma20 |-> 105, ma60 |-> 110, ma120 |-> 120],
         <<[line |-> -1, signal |-> 0, hist |-> -1, prev_hist |-> 0]>>, <<29>>,
         <<[k |-> 51, d |-> 60]>>, [vol5 |-> 10, vol20 |-> 10],
         <<[upper |-> 5, middle |-> -10, lower |-> -25]>>)
\* 15 points and a close 21 % above the 60-bar mean
TechOverbought ==
    Tech([price |-> 121, ma20 |-> 125, ma60 |-> 100, ma120 |-> 95],
         <<>>, <<>>, <<>>, [vol5 |-> 10, vol20 |-> 10], <<>>)
TechFail == [TechBear EXCEPT !.fail = TRUE]

Price(bars, pe, tech) == [fail |-> FALSE, bars |-> bars, pe |-> pe, tech |-> tech]
PriceEmpty == Price(0, PeNoPositive, TechBear)
PriceFail == [Price(0, PeNoPositive, TechBear) EXCEPT !.fail = TRUE]

\* net-flow rows
ChipDay(foreign_net, trust_net, dealer_net) ==
    [foreign_net |-> foreign_net, trust_net |-> trust_net, dealer_net |-> dealer_net,
     total_net |-> foreign_net + trust_net + dealer_net]
Chip(rows) == [fail |-> FALSE, rows |-> rows]
ChipEmpty == Chip(<<>>)
ChipFail == [fail |-> TRUE, rows |-> <<>>]
ChipShort == Chip([j \in 1..3 |-> ChipDay(2000, 300, 100)])
ChipBull == Chip([j \in 1..6 |-> ChipDay(2000, 300, 100)])
ChipBear == Chip([j \in 1..5 |-> ChipDay(-1500, -200, -100)])
\* the trust streak broken three days ago, flows around zero
ChipMixed ==
    Chip(<<ChipDay(900, 100, 50), ChipDay(-500, 100, -200), ChipDay(100, -50, -300),
           ChipDay(200, 10, -50), ChipDay(-100, 20, 0), ChipDay(300, 5, 10)>>)

Share(rows) == [fail |-> FALSE, rows |-> rows]
ShareNone == Share(<<>>)
ShareFail == [fail |-> TRUE, rows |-> <<>>]
ShareOne == Share(<<4100>>)
ShareUp == Share(<<4000, 4100, 4200>>)
ShareFlat == Share(<<4150, 4100, 4150>>)
ShareDown == Share(<<4100, 4000>>)

Profile(fund, price, chip, share) ==
    [fund |-> fund, price |-> price, chip |-> chip, share |-> share, fault |-> FALSE]

\* the symbols of the small universes, by the case each stands for
SmallSyms == 1..12

SmallProfile(s) ==
    CASE s = 1 -> Profile(FundOf(Levels(5, 5, 5, 5, 5, 5)), Price(150, PeOf(5), TechBull),
                          ChipBull, ShareUp)
      [] s = 2 -> Profile(FundOf(Levels(5, 5, 5, 5, 5, 5)), Price(150, PeOf(2), TechBull),
                          ChipBull, ShareUp)
      [] s = 3 -> Profile(FundOf(Levels(5, 5, 5, 5, 5, 5)), Price(150, PeOf(3), TechMid),
                          ChipMixed, ShareFlat)
      [] s = 4 -> Profile(FundOf(Levels(3, 3, 3, 3, 3, 3)), Price(60, PeOf(4), TechBull),
                          ChipShort, ShareUp)
      [] s = 5 -> Profile(FundOf(Levels(4, 4, 4, 4, 4, 4)), PriceEmpty, ChipBull, ShareUp)
      [] s = 6 -> Profile(FundNoIncome, Price(120, PeOf(5), TechBear), ChipEmpty, ShareNone)
      [] s = 7 -> [Profile(FundOf(Levels(5, 5, 5, 5, 5, 5)), Price(150, PeOf(5), TechBull),
                           ChipBull, ShareUp) EXCEPT !.fault = TRUE]
      [] s = 8 -> Profile(FundOf(Levels(1, 1, 1, 1, 1, 1)), Price(150, PeOf(5), TechOverbought),
                          ChipFail, ShareUp)
      [] s = 9 -> Profile(FundOf(Levels(2, 4, 1, 5, 3, 2)), Price(130, PeOf(4), TechFail),
                          ChipBear, ShareDown)
      [] s = 10 -> Profile(FundOf(Levels(4, 2, 5, 1, 2, 3)), Price(150, PeOf(4), TechMid),
                           ChipMixed, ShareFail)
      [] s = 11 -> Profile(FundReversed(Levels(1, 5, 3, 2, 5, 4)), Price(119, PeOf(4), TechBull),
                           ChipShort, ShareOne)
      [] s = 12 -> Profile(FundOf(Levels(5, 5, 5, 5, 5, 5)), Price(150, PeOf(5), TechOverbought),
                           ChipMixed, ShareNone)

\* store contents on which only the engine is run
EngineSyms == 13..19

EngineProfile(s) ==
    CASE s = 13 -> Profile(FundAllNaN, Price(150, PeNaNNow, TechMid), ChipBull, ShareUp)
      [] s = 14 -> Profile(FundShort, Price(150, PeOf(5), TechBull), ChipBull, ShareUp)
      [] s = 15 -> Profile(FundDegenerate, Price(150, PeFlat, TechMid), ChipEmpty, ShareNone)
      [] s = 16 -> Profile(FundFail, PriceFail, ChipFail, ShareFail)
      [] s = 17 -> Profile(FundEmpty, PriceEmpty, ChipEmpty, ShareNone)
      [] s = 18 -> Profile(FundOf(Levels(5, 1, 5, 1, 5, 1)), Price(150, PeNegativeNow, TechMid),
                           ChipEmpty, ShareNone)
      [] s = 19 -> Profile(FundOf(Levels(1, 1, 1, 1, 1, 1)), Price(150, PeNoPositive, TechMid),
                           ChipEmpty, ShareNone)

\* the large universe: symbols 101, 102, ... with factor levels spread over 1..5,
\* all but one passing the valuation gate, a few failing in Layer 3
LargeUniverse == 32
LargeSyms == {100 + k : k \in 1..LargeUniverse}

LargeProfile(s) ==
    LET k == s - 100
        lv == Levels(1 + (k % 5), 1 + ((k \div 4) % 5), 1 + ((k \div 3) % 5),
                     1 + (k % 5), 1 + ((k \div 4) % 5), 1 + ((2 * k) % 5))
        pe == IF k % 26 = 7 THEN PeOf(2) ELSE IF k % 2 = 0 THEN PeOf(5) ELSE PeOf(4)
        tech == CASE k % 10 = 5 -> TechFail
                  [] k % 10 # 5 /\ k % 4 = 0 -> TechBull [] k % 10 # 5 /\ k % 4 = 1 -> TechMid
                  [] k % 10 # 5 /\ k % 4 = 2 -> TechBear
                  [] k % 10 # 5 /\ k % 4 = 3 -> TechOverbought
        chip == CASE k % 4 = 0 -> ChipBull [] k % 4 = 1 -> ChipShort
                  [] k % 4 = 2 -> ChipMixed [] k % 4 = 3 -> ChipBear
        share == CASE k % 3 = 0 -> ShareUp [] k % 3 = 1 -> ShareNone [] k % 3 = 2 -> ShareDown
    IN  Profile(FundOf(lv), Price(IF k % 3 = 0 THEN 100 ELSE 150, pe, tech), chip, share)

ProfileOf(s) ==
    IF s \in SmallSyms THEN SmallProfile(s)
    ELSE IF s \in EngineSyms THEN EngineProfile(s)
    ELSE LargeProfile(s)

\* parameters.yaml as it may be found
Configs ==
    {[kind |-> "missing", w |-> EmptyMap],
     [kind |-> "unreadable", w |-> EmptyMap],
     [kind |-> "loaded", w |-> EmptyMap],
     [kind |-> "loaded",
      w |-> [roe |-> 15, eps_yoy |-> 15, fcf |-> 10, gross_margin_trend |-> 10,
             revenue_yoy |-> 10, debt_ratio |-> 10, pe_relative |-> 30]],
     [kind |-> "loaded",
      w |-> [roe |-> 50, eps_yoy |-> 20, fcf |-> 15, gross_margin_trend |-> 15,
             revenue_yoy |-> 10, debt_ratio |-> 10, pe_relative |-> 10]],
     [kind |-> "loaded",
      w |-> [roe |-> 20, eps_yoy |-> 20, fcf |-> 15, gross_margin_trend |-> 15,
             revenue_yoy |-> 10, pe_relative |-> 10]],
     [kind |-> "loaded",
      w |-> [roe |-> 30, eps_yoy |-> 20, fcf |-> 15, gross_margin_trend |-> 15,
             revenue_yoy |-> 10, debt_ratio |-> 20, pe_relative |-> -10]]}

Range(seq) == {seq[j] : j \in 1..Len(seq)}
IsInjective(seq) == \A a, b \in 1..Len(seq) : seq[a] = seq[b] => a = b

\* the universes: a listing of distinct symbols, as run_strategy.py takes it from the
\* directories of the store
MaxSmallUniverse == 2
SmallUniverses ==
    {u \in UNION {[1..m -> SmallSyms] : m \in 0..MaxSmallUniverse} : IsInjective(u)}
LargeUniverses ==
    {[j \in 1..LargeUniverse |-> 100 + j], [j \in 1..LargeUniverse |-> 100 + LargeUniverse + 1 - j]}

----------------------------------------------------------------------------
(* Specifications                                                          *)

InitCommon ==
    /\ engine = "none"
    /\ weights = EmptyMap
    /\ log = {}
    /\ cache = EmptyMap
    /\ today = 1
    /\ ret = <<>>
    /\ pc = "idle"
    /\ idx = 1
    /\ results = <<>>
    /\ l1 = <<>>
    /\ l2 = <<>>
    /\ final = <<>>
    /\ reads = {}
    /\ call = <<>>
    /\ workers = <<>>

\* a screening run: run_strategy.py builds the engine and the screener and calls
\* screen_stocks on the store's symbols
Init ==
    /\ InitCommon
    /\ config \in Configs
    /\ universe \in SmallUniverses \cup LargeUniverses
    /\ store = [s \in Range(universe) |-> ProfileOf(s)]

Next ==
    \/ Construct
    \/ screen_stocks
    \/ L1Step
    \/ L1Return
    \/ L2Step
    \/ L2Return
    \/ L3Step
    \/ L3Return

Spec == Init /\ [][Next]_vars

\* date.today() moves on between two calls of the engine
MaxDay == 2

NextDay ==
    /\ today < MaxDay
    /\ today' = today + 1
    /\ UNCHANGED <<store, config, engine, weights, log, cache, ret, universe, pc, idx,
                   results, l1, l2, final, reads>>
    /\ UNCHANGED <<call, workers>>

\* the engine alone: constructed once, then asked for composites of the symbols of
\* the store, on the same day and on later days
EngineUniverses ==
    {<<s>> : s \in SmallSyms \cup EngineSyms}
        \cup {<<s, s + 1>> : s \in (SmallSyms \cup EngineSyms) \ {19}}

InitEngine ==
    /\ InitCommon
    /\ config \in Configs
    /\ universe \in EngineUniverses
    /\ store = [s \in Range(universe) |-> ProfileOf(s)]

NextEngine ==
    \/ Construct
    \/ \E symbol \in Range(universe) : calculate_fundamental_score(symbol)
    \/ NextDay

SpecEngine == InitEngine /\ [][NextEngine]_vars

\* the row Layers 1 and 2 hand on for a symbol, given the engine's details of it and
\* the chip evaluation of it
CandidateRow(symbol, details, ev) ==
    L2Row([symbol |-> symbol,
           stock_name |-> get_stock_name(symbol),
           fundamental_score |-> details.total_score,
           pe_score |-> PeScoreOf(details.factors),
           fundamental_details |-> details.factors],
          ev)

\* the price frames of the first candidate of a call of Layer 3: every combination of
\* the indicator cases on a frame of just enough bars, frames that are empty or too
\* short, a frame whose read raises and one on which the computation raises
L3Frames ==
    {Price(MinBars, PeOf(5), t) : t \in TechSpace}
        \cup {Price(bars, PeOf(5), TechBull) : bars \in {0, 1, MinBars - 1, MinBars + 1}}
        \cup {PriceFail, Price(MinBars, PeOf(5), TechFail)}

\* before a call of _layer3_technical_position on its own
InitL3 ==
    /\ config = [kind |-> "missing", w |-> EmptyMap]
    /\ engine = "ready"
    /\ weights = default_weights
    /\ log = {"weights_config_missing"}
    /\ cache = EmptyMap
    /\ today = 1
    /\ ret = <<>>
    /\ universe = <<1, 12>>
    /\ \E frame \in L3Frames :
          store = [s \in {1, 12} |->
                      IF s = 1 THEN [SmallProfile(1) EXCEPT !.price = frame]
                      ELSE SmallProfile(s)]
    /\ pc = "call_L3"
    /\ idx = 1
    /\ results = <<>>
    /\ l1 = <<>>
    /\ l2 = <<>>
    /\ final = <<>>
    /\ reads = {}
    /\ call = <<>>
    /\ workers = <<>>

\* _layer3_technical_position called on the table of the store's two candidates
L3Call ==
    /\ pc = "call_L3"
    /\ l2' = <<CandidateRow(1, calculate_fundamental_details(1),
                            ChipEval(read_chip_data(1), read_shareholding_data(1))),
               CandidateRow(12, calculate_fundamental_details(12),
                            ChipEval(read_chip_data(12), read_shareholding_data(12)))>>
    /\ pc' = "L3"
    /\ idx' = 1
    /\ results' = <<>>
    /\ UNCHANGED <<store, config, engine, weights, log, cache, today, ret, universe,
                   l1, final, reads>>
    /\ UNCHANGED <<call, workers>>

NextL3 ==
    \/ L3Call
    \/ L3Step
    \/ L3Return

SpecL3 == InitL3 /\ [][NextL3]_vars

----------------------------------------------------------------------------
(* _score_factor called directly                                           *)

\* raw values: every tenth from -MaxRaw to MaxRaw, the FCF thresholds (in units of
\* 10^6) and their neighbours, values just off a boundary, the infinities and NaN
MaxRaw == 90
RawValues ==
    {Num(n, 10) : n \in (0 - 10 * MaxRaw)..(10 * MaxRaw)}
        \cup {Num(n, 1) : n \in {-1000000, -1001, -1000, -999, 999, 1000, 1001,
                                 4999, 5000, 5001, 1000000}}
        \cup {Num(19999, 1000), Num(20001, 10000), Num(-10001, 10000), Num(29999, 1000),
              Num(300001, 10000)}
        \cup {NaN, PosInf, NegInf}

ScoredNames == FactorNames \cup {"unknown_factor"}

\* before a direct call of a method: an engine yet to be built on an empty store
InitDirect ==
    /\ engine = "none"
    /\ weights = EmptyMap
    /\ log = {}
    /\ cache = EmptyMap
    /\ today = 1
    /\ ret = <<>>
    /\ pc = "idle"
    /\ idx = 1
    /\ results = <<>>
    /\ l1 = <<>>
    /\ l2 = <<>>
    /\ final = <<>>
    /\ reads = {}
    /\ workers = <<>>
    /\ config = [kind |-> "missing", w |-> EmptyMap]
    /\ universe = <<>>
    /\ store = <<>>

\* engine._score_factor(factor_name, raw_value) is about to be called
InitScore ==
    /\ InitDirect
    /\ call \in {[op |-> "_score_factor", factor_name |-> f, raw_value |-> v,
                  returned |-> FALSE, out |-> 0] : f \in ScoredNames, v \in RawValues}

ScoreCall ==
    /\ engine = "ready"
    /\ call.op = "_score_factor"
    /\ ~call.returned
    /\ call' = [call EXCEPT !.returned = TRUE,
                            !.out = _score_factor(call.factor_name, call.raw_value)]
    /\ UNCHANGED <<store, config, engine, weights, log, cache, today, ret, universe, pc,
                   idx, results, l1, l2, final, reads, workers>>

NextScore ==
    \/ Construct
    \/ ScoreCall

SpecScore == InitScore /\ [][NextScore]_vars

----------------------------------------------------------------------------
(* The engine on a store that is written to                                *)

\* the quarters a collection run may write for a symbol
WrittenLevels == {Levels(5, 5, 5, 5, 5, 5), Levels(1, 1, 1, 1, 1, 1)}

\* ParquetManager.write_fundamental_data(df, symbol): the symbol's fundamentals file is
\* replaced by df.  The PE statistics held with the price partition are those of the
\* series merged from the prices and the quarters, so they change with the quarters.
write_fundamental_data(df, symbol, pe) ==
    /\ df # store[symbol].fund \/ pe # store[symbol].price.pe
    /\ store' = [store EXCEPT ![symbol].fund = df, ![symbol].price.pe = pe]
    /\ UNCHANGED <<config, engine, weights, log, cache, today, ret, universe, pc, idx,
                   results, l1, l2, final, reads, call, workers>>

\* one engine, living through rewrites of the store and past midnight
InitHistory ==
    /\ InitCommon
    /\ config \in {cfg \in Configs : cfg.kind = "missing" \/ DOMAIN cfg.w = FactorNames}
    /\ universe \in {<<1>>, <<4>>, <<6>>}
    /\ store = [s \in Range(universe) |-> ProfileOf(s)]

NextHistory ==
    \/ Construct
    \/ \E symbol \in Range(universe) : calculate_fundamental_score(symbol)
    \/ NextDay
    \/ \E symbol \in Range(universe), lv \in WrittenLevels, level \in {2, 5} :
          write_fundamental_data(FundOf(lv), symbol, PeOf(level))

SpecHistory == InitHistory /\ [][NextHistory]_vars

----------------------------------------------------------------------------
(* calculate_fundamental_score called by parallel workers                  *)
(*                                                                         *)
(* A call is four steps, each atomic under the interpreter lock: the key   *)
(* is formed (line 95), the cache is looked up (96-97), the composite is   *)
(* computed from the store (99-115), the cache is written and the value    *)
(* returned (118-120).  workers[w] is the position of worker w in its      *)
(* call, the symbol and the key of the call and the value it holds.        *)

NumWorkers == 2
WorkerIds == 1..NumWorkers

Idle == [at |-> "idle", symbol |-> 0, key |-> <<>>, value |-> 0]

\* line 95: the call is entered and the key formed
WCall(w, symbol) ==
    /\ engine = "ready"
    /\ workers[w].at \in {"idle", "returned"}
    /\ workers' = [workers EXCEPT ![w] = [at |-> "lookup", symbol |-> symbol,
                                         key |-> cache_key(symbol), value |-> 0]]
    /\ UNCHANGED <<store, config, engine, weights, log, cache, today, ret, universe, pc,
                   idx, results, l1, l2, final, reads, call>>

\* lines 96-97: a hit returns the entry
WLookup(w) ==
    /\ workers[w].at = "lookup"
    /\ workers' = [workers EXCEPT ![w] =
                      IF workers[w].key \in DOMAIN cache
                      THEN [@ EXCEPT !.at = "returned", !.value = cache[workers[w].key]]
                      ELSE [@ EXCEPT !.at = "compute"]]
    /\ UNCHANGED <<store, config, engine, weights, log, cache, today, ret, universe, pc,
                   idx, results, l1, l2, final, reads, call>>

\* lines 99-115: the seven factors are calculated and scored, the composite formed
WCompute(w) ==
    /\ workers[w].at = "compute"
    /\ workers' = [workers EXCEPT ![w] =
                      [@ EXCEPT !.at = "write",
                                !.value = WeightedScore(FactorScores(workers[w].symbol),
                                                        weights)]]
    /\ log' = log \cup (IF FailedFactors(workers[w].symbol) = {} THEN {}
                        ELSE {"factor_failed"})
    /\ UNCHANGED <<store, config, engine, weights, cache, today, ret, universe, pc,
                   idx, results, l1, l2, final, reads, call>>

\* lines 118-120: the composite is put in the cache and returned
WWrite(w) ==
    /\ workers[w].at = "write"
    /\ cache' = [key \in DOMAIN cache \cup {workers[w].key} |->
                    IF key = workers[w].key THEN workers[w].value ELSE cache[key]]
    /\ workers' = [workers EXCEPT ![w] = [@ EXCEPT !.at = "returned"]]
    /\ UNCHANGED <<store, config, engine, weights, log, today, ret, universe, pc,
                   idx, results, l1, l2, final, reads, call>>

InitWorkers ==
    /\ engine = "none"
    /\ weights = EmptyMap
    /\ log = {}
    /\ cache = EmptyMap
    /\ today = 1
    /\ ret = <<>>
    /\ pc = "idle"
    /\ idx = 1
    /\ results = <<>>
    /\ l1 = <<>>
    /\ l2 = <<>>
    /\ final = <<>>
    /\ reads = {}
    /\ call = <<>>
    /\ workers = [w \in WorkerIds |-> Idle]
    /\ config \in {cfg \in Configs : cfg.kind = "missing" \/ DOMAIN cfg.w = FactorNames}
    /\ universe \in {<<1, 4>>, <<6, 16>>, <<9>>}
    /\ store = [s \in Range(universe) |-> ProfileOf(s)]

\* the calls of one day
NextWorkers ==
    \/ Construct
    \/ \E w \in WorkerIds :
          \/ \E symbol \in Range(universe) : WCall(w, symbol)
          \/ WLookup(w)
          \/ WCompute(w)
          \/ WWrite(w)

SpecWorkers == InitWorkers /\ [][NextWorkers]_vars

----------------------------------------------------------------------------
(* The chip score of one candidate on two stores                           *)

\* how many rows a partition may hold before the rows of the window
MaxEarlier == 1

\* a day of buying, a day of selling, a calm day
DayKinds == {ChipDay(3000, 200, 400), ChipDay(-3000, -200, -400), ChipDay(300, 10, -50)}
EarlierDays == UNION {[1..m -> DayKinds] : m \in 0..MaxEarlier}
\* the last two major_ratio values, and values before them
RatioTails == {<<4000, 4100>>, <<4100, 4100>>, <<4100, 4000>>}
EarlierRatios == UNION {[1..m -> {3000, 5000}] : m \in 0..MaxEarlier}

\* the iteration of _layer2_chip_filter for one candidate is about to run on store a,
\* which holds five net-flow rows and two shareholding rows for it, and on store b,
\* which holds the same rows after earlier ones
InitChip ==
    /\ InitDirect
    /\ call \in {[op |-> "chip_score",
                  a |-> [chip |-> Chip(last5), share |-> Share(last2)],
                  b |-> [chip |-> Chip(days \o last5), share |-> Share(ratios \o last2)],
                  returned |-> FALSE, out_a |-> <<>>, out_b |-> <<>>] :
                     last5 \in [1..5 -> DayKinds], last2 \in RatioTails,
                     days \in EarlierDays, ratios \in EarlierRatios}

\* lines 124-230 for the candidate, on each store
ChipCall ==
    /\ engine = "ready"
    /\ call.op = "chip_score"
    /\ ~call.returned
    /\ call' = [call EXCEPT !.returned = TRUE,
                            !.out_a = ChipEval(call.a.chip, call.a.share),
                            !.out_b = ChipEval(call.b.chip, call.b.share)]
    /\ UNCHANGED <<store, config, engine, weights, log, cache, today, ret, universe, pc,
                   idx, results, l1, l2, final, reads, workers>>

NextChip ==
    \/ Construct
    \/ ChipCall

SpecChip == InitChip /\ [][NextChip]_vars

----------------------------------------------------------------------------
(* The chip score of one candidate against the analysis script              *)

\* days whose five-day sums land on and around the thresholds of factors 2 to 4
ScoreDays ==
    {[foreign_net |-> 1000, trust_net |-> 5, dealer_net |-> 0, total_net |-> 1000],
     [foreign_net |-> 1005, trust_net |-> 0, dealer_net |-> -100, total_net |-> 1005],
     [foreign_net |-> -1000, trust_net |-> -3, dealer_net |-> 100, total_net |-> 200],
     [foreign_net |-> 0, trust_net |-> 2, dealer_net |-> 0, total_net |-> 0],
     [foreign_net |-> 6000, trust_net |-> 1, dealer_net |-> -400, total_net |-> 6000]}
\* shareholding frames: none, one row, a rise of 0.50, of 0.51, of 0, a fall of 0.01
ScoreShares ==
    {<<>>, <<4100>>, <<4000, 4050>>, <<3000, 4000, 4051>>, <<4100, 4100>>, <<4100, 4099>>}

\* the iteration of _layer2_chip_filter is about to run for a candidate of five or six
\* net-flow rows
InitChipScore ==
    /\ InitDirect
    /\ call \in {[op |-> "chip_composite", chip |-> Chip(days \o last5), share |-> Share(ratios),
                  returned |-> FALSE, out |-> <<>>] :
                     last5 \in [1..5 -> ScoreDays], ratios \in ScoreShares,
                     days \in {<<>>, <<[foreign_net |-> 6000, trust_net |-> 1,
                                        dealer_net |-> -400, total_net |-> 6000]>>}}

\* lines 124-230 for the candidate
ChipScoreCall ==
    /\ engine = "ready"
    /\ call.op = "chip_composite"
    /\ ~call.returned
    /\ call' = [call EXCEPT !.returned = TRUE, !.out = ChipEval(call.chip, call.share)]
    /\ UNCHANGED <<store, config, engine, weights, log, cache, today, ret, universe, pc,
                   idx, results, l1, l2, final, reads, workers>>

NextChipScore ==
    \/ Construct
    \/ ChipScoreCall

SpecChipScore == InitChipScore /\ [][NextChipScore]_vars

----------------------------------------------------------------------------
(* One iteration of Layer 3 on one price frame                             *)

\* the iteration of _layer3_technical_position is about to run for a candidate whose
\* price frame is df
InitTech ==
    /\ InitDirect
    /\ call \in {[op |-> "tech_position", df |-> frame, returned |-> FALSE, out |-> <<>>] :
                    frame \in L3Frames}

\* an iteration that gives the candidate up when an indicator is not available
TechCall_drop ==
    /\ engine = "ready"
    /\ call.op = "tech_position"
    /\ ~call.returned
    /\ LET df == call.df
           row == [symbol |-> 1]
       IN  call' = [call EXCEPT
                       !.returned = TRUE,
                       !.out = IF df.fail THEN [appended |-> FALSE, row |-> row]
                               ELSE IF ~HasEnoughBars(df)
                               THEN [appended |-> TRUE, row |-> SetFields(row, InsufficientFields)]
                               ELSE IF df.tech.fail \/ <<>> \in {df.tech.macd, df.tech.rsi,
                                                                df.tech.kd, df.tech.bb}
                               THEN [appended |-> FALSE, row |-> row]
                               ELSE [appended |-> TRUE,
                                     row |-> SetFields(row, TechFields(df.tech))]]
    /\ UNCHANGED <<store, config, engine, weights, log, cache, today, ret, universe, pc,
                   idx, results, l1, l2, final, reads, workers>>

\* lines 260-423 for the candidate: the row appended to results, or nothing when the
\* except branch is taken
TechCall ==
    /\ engine = "ready"
    /\ call.op = "tech_position"
    /\ ~call.returned
    /\ LET df == call.df
           row == [symbol |-> 1]
       IN  call' = [call EXCEPT
                       !.returned = TRUE,
                       !.out = IF df.fail THEN [appended |-> FALSE, row |-> row]
                               ELSE IF ~HasEnoughBars(df)
                               THEN [appended |-> TRUE, row |-> SetFields(row, InsufficientFields)]
                               ELSE IF df.tech.fail THEN [appended |-> FALSE, row |-> row]
                               ELSE [appended |-> TRUE,
                                     row |-> SetFields(row, TechFields(df.tech))]]
    /\ UNCHANGED <<store, config, engine, weights, log, cache, today, ret, universe, pc,
                   idx, results, l1, l2, final, reads, workers>>

NextTech ==
    \/ Construct
    \/ TechCall

SpecTech == InitTech /\ [][NextTech]_vars

----------------------------------------------------------------------------
(* The seven factor functions called on one fundamentals record            *)

\* records of three, four and five quarters, sound or with a negative equity in the
\* last four quarters, complete or lacking one column or both columns of the ROE;
\* and the empty record
FactorFrames ==
    {[fail |-> FALSE, cols |-> AllCols \ missing, rows |-> SubSeq(base, 6 - n, 5)] :
        missing \in {{}, {"net_income", "equity"}} \cup {{c} : c \in AllCols},
        n \in 3..5,
        base \in {FundRows(Levels(5, 5, 5, 5, 5, 5)), FundDegenerate.rows}}
        \cup {FundEmpty}

\* each factor function is about to be called for symbol 1, then the composite
InitFactor ==
    /\ engine = "none"
    /\ weights = EmptyMap
    /\ log = {}
    /\ cache = EmptyMap
    /\ today = 1
    /\ ret = <<>>
    /\ pc = "idle"
    /\ idx = 1
    /\ results = <<>>
    /\ l1 = <<>>
    /\ l2 = <<>>
    /\ final = <<>>
    /\ reads = {}
    /\ workers = <<>>
    /\ config = [kind |-> "missing", w |-> EmptyMap]
    /\ universe = <<1>>
    /\ \E frame \in FactorFrames, price \in {PriceEmpty, Price(150, PeOf(5), TechBull)} :
          store = [s \in {1} |-> Profile(frame, price, ChipEmpty, ShareNone)]
    /\ call = [op |-> "factors", returned |-> FALSE, out |-> <<>>, scores |-> <<>>]

\* the seven registered functions called one by one (what each returns, or that it
\* raises), and the ordinal scores step 2 of calculate_fundamental_score gives them
FactorCall ==
    /\ engine = "ready"
    /\ call.op = "factors"
    /\ ~call.returned
    /\ call' = [call EXCEPT !.returned = TRUE,
                            !.out = [f \in FactorNames |-> fundamental_factors(f, 1)],
                            !.scores = FactorScores(1)]
    /\ UNCHANGED <<store, config, engine, weights, log, cache, today, ret, universe, pc,
                   idx, results, l1, l2, final, reads, workers>>

NextFactor ==
    \/ Construct
    \/ FactorCall

SpecFactor == InitFactor /\ [][NextFactor]_vars

----------------------------------------------------------------------------
(* The writers of the chip and shareholding partitions                     *)
(*                                                                         *)
(* Here a partition is [exists, rows]: whether its data.parquet exists,    *)
(* and its rows, each with its date and a value v that tells which row of  *)
(* which write it is.  call counts the writes and keeps, for each          *)
(* partition and date, the values the latest write that held the date had  *)
(* for it.                                                                 *)

\* how many writes there are in all
MaxWrites == 2
WriteDates == 1..3

\* the frames the n-th write may hand over: up to two rows, dates in any order and
\* possibly repeated
Batches(n) ==
    {<<>>} \cup {<<[date |-> a, v |-> 10 * n + 1]>> : a \in WriteDates}
           \cup {<<[date |-> a, v |-> 10 * n + 1], [date |-> b, v |-> 10 * n + 2]>> :
                    a \in WriteDates, b \in WriteDates}

\* drop_duplicates(subset=['date'], keep='last'): the rows that no later row of the
\* frame shares its date with, in their order
RECURSIVE drop_duplicates(_)
drop_duplicates(rows) ==
    IF rows = <<>> THEN <<>>
    ELSE IF \E j \in 2..Len(rows) : rows[j].date = Head(rows).date
         THEN drop_duplicates(Tail(rows))
         ELSE <<Head(rows)>> \o drop_duplicates(Tail(rows))

\* what sort_values('date') may give: the default sort is not stable, so rows of the
\* same date come in any order
RECURSIVE DateOrders(_, _)
DateOrders(rows, S) ==
    IF S = {} THEN {<<>>}
    ELSE LET first == {j \in S : \A h \in S : rows[j].date <= rows[h].date}
         IN  UNION {{<<rows[j]>> \o t : t \in DateOrders(rows, S \ {j})} : j \in first}

\* the frames a writer may leave in the file, given the file and the frame handed over
combined_df(file, data) ==
    IF file.exists
    THEN LET combined == drop_duplicates(file.rows \o data)
         IN  DateOrders(combined, 1..Len(combined))
    ELSE DateOrders(data, 1..Len(data))

\* the values of the latest write per date, after a write of data
Latest(latest, data) ==
    [d \in WriteDates |->
        IF \E j \in 1..Len(data) : data[j].date = d
        THEN {data[j].v : j \in {h \in 1..Len(data) : data[h].date = d}}
        ELSE latest[d]]

write_chip_data(symbol, data) ==
    /\ call.n < MaxWrites
    /\ \E rows \in combined_df(store[symbol].chip, data) :
          store' = [store EXCEPT ![symbol].chip = [exists |-> TRUE, rows |-> rows]]
    /\ call' = [call EXCEPT !.n = call.n + 1, !.chip = Latest(call.chip, data)]
    /\ UNCHANGED <<config, engine, weights, log, cache, today, ret, universe, pc, idx,
                   results, l1, l2, final, reads, workers>>

write_shareholding_data(symbol, data) ==
    /\ call.n < MaxWrites
    /\ \E rows \in combined_df(store[symbol].share, data) :
          store' = [store EXCEPT ![symbol].share = [exists |-> TRUE, rows |-> rows]]
    /\ call' = [call EXCEPT !.n = call.n + 1, !.share = Latest(call.share, data)]
    /\ UNCHANGED <<config, engine, weights, log, cache, today, ret, universe, pc, idx,
                   results, l1, l2, final, reads, workers>>

\* a symbol with no partition yet
InitStore ==
    /\ engine = "none"
    /\ weights = EmptyMap
    /\ log = {}
    /\ cache = EmptyMap
    /\ today = 1
    /\ ret = <<>>
    /\ pc = "idle"
    /\ idx = 1
    /\ results = <<>>
    /\ l1 = <<>>
    /\ l2 = <<>>
    /\ final = <<>>
    /\ reads = {}
    /\ workers = <<>>
    /\ config = [kind |-> "missing", w |-> EmptyMap]
    /\ universe = <<1>>
    /\ store = [s \in {1} |-> [chip |-> [exists |-> FALSE, rows |-> <<>>],
                               share |-> [exists |-> FALSE, rows |-> <<>>]]]
    /\ call = [op |-> "writes", n |-> 0, chip |-> [d \in WriteDates |-> {}],
               share |-> [d \in WriteDates |-> {}]]

NextStore ==
    \E data \in Batches(call.n + 1) :
        \/ write_chip_data(1, data)
        \/ write_shareholding_data(1, data)

SpecStore == InitStore /\ [][NextStore]_vars

----------------------------------------------------------------------------
(* ShioajiClient used by several threads (src/src/api_client.py)           *)
(*                                                                         *)
(* call holds the class and its one instance: how many instances __new__   *)
(* made, whether the instance has the attribute initialized, how often the *)
(* body of __init__ ran, is_connected, which lock object self.lock is and  *)
(* which lock objects are held, and what the API saw: the last of          *)
(* login/logout that succeeded, whether two of a kind followed each other, *)
(* and whether login (logout) was invoked with is_connected true (false).  *)
(* workers[t] is the position of thread t, the method it entered connect   *)
(* from, and the lock object it holds or waits for.                        *)

Thread(at, origin, lock) == [at |-> at, origin |-> origin, lock |-> lock]

At(t, at) == workers' = [workers EXCEPT ![t].at = at]

ClientUnchanged ==
    UNCHANGED <<store, config, engine, weights, log, cache, today, ret, universe, pc,
                idx, results, l1, l2, final, reads>>

\* lines 75-79: __new__ under the class lock
ClientNew(t) ==
    /\ workers[t].at = "start"
    /\ call' = [call EXCEPT !.instances = IF call.instances = 0 THEN 1 ELSE @]
    /\ At(t, "init")
    /\ ClientUnchanged

\* a thread that is handed the client another thread made
ClientShared(t) ==
    /\ workers[t].at = "start"
    /\ call.initialized
    /\ At(t, "ready")
    /\ UNCHANGED call
    /\ ClientUnchanged

\* line 82: if not hasattr(self, 'initialized')
ClientInitTest(t) ==
    /\ workers[t].at = "init"
    /\ At(t, IF call.initialized THEN "ready" ELSE "init_body")
    /\ UNCHANGED call
    /\ ClientUnchanged

\* lines 83-91: a new api object, is_connected = False, a new lock, initialized = True
ClientInitBody(t) ==
    /\ workers[t].at = "init_body"
    /\ call' = [call EXCEPT !.initialized = TRUE, !.inits = @ + 1, !.is_connected = FALSE,
                            !.lock_id = @ + 1]
    /\ At(t, "ready")
    /\ ClientUnchanged

\* connect() is called
ConnectCall(t) ==
    /\ workers[t].at = "ready"
    /\ workers' = [workers EXCEPT ![t] = Thread("connect_wait", "connect", call.lock_id)]
    /\ UNCHANGED call
    /\ ClientUnchanged

\* lines 115-116 of get_historical_data: connect() when is_connected is read as false
GetCall(t) ==
    /\ workers[t].at = "ready"
    /\ workers' = [workers EXCEPT ![t] =
                      IF call.is_connected THEN Thread("fetch", "get", 0)
                      ELSE Thread("connect_wait", "get", call.lock_id)]
    /\ UNCHANGED call
    /\ ClientUnchanged

\* line 94: with self.lock
ConnectLock(t) ==
    /\ workers[t].at = "connect_wait"
    /\ workers[t].lock \notin call.held
    /\ call' = [call EXCEPT !.held = @ \cup {workers[t].lock}]
    /\ At(t, "connect_locked")
    /\ ClientUnchanged

\* what connect() leaves its caller at
AfterConnect(t) == IF workers[t].origin = "get" THEN "fetch" ELSE "ready"

\* lines 95-96
ConnectTest(t) ==
    /\ workers[t].at = "connect_locked"
    /\ IF call.is_connected
       THEN /\ call' = [call EXCEPT !.held = @ \ {workers[t].lock}]
            /\ At(t, AfterConnect(t))
       ELSE /\ At(t, "login")
            /\ UNCHANGED call
    /\ ClientUnchanged

\* line 98: api.login succeeds or raises
ApiLogin(t, ok) ==
    /\ workers[t].at = "login"
    /\ call' = [call EXCEPT
                   !.bad_login = @ \/ call.is_connected,
                   !.last_event = IF ok THEN "login" ELSE @,
                   !.broken = @ \/ (ok /\ call.last_event = "login")]
    /\ At(t, IF ok THEN "logged_in" ELSE "login_failed")
    /\ ClientUnchanged

\* lines 99-101: is_connected = True, return True
ConnectReturn(t) ==
    /\ workers[t].at = "logged_in"
    /\ call' = [call EXCEPT !.is_connected = TRUE, !.held = @ \ {workers[t].lock}]
    /\ At(t, AfterConnect(t))
    /\ ClientUnchanged

\* lines 102-104: APIConnectionError leaves connect(), and get_historical_data with it
ConnectRaise(t) ==
    /\ workers[t].at = "login_failed"
    /\ call' = [call EXCEPT !.held = @ \ {workers[t].lock}]
    /\ At(t, "ready")
    /\ ClientUnchanged

\* lines 118-138: the bars are fetched
Fetch(t) ==
    /\ workers[t].at = "fetch"
    /\ At(t, "ready")
    /\ UNCHANGED call
    /\ ClientUnchanged

\* disconnect() is called and takes the lock (line 107)
DisconnectLock(t) ==
    /\ workers[t].at = "ready"
    /\ call.lock_id \notin call.held
    /\ call' = [call EXCEPT !.held = @ \cup {call.lock_id}]
    /\ workers' = [workers EXCEPT ![t] = Thread("disconnect_locked", "disconnect", call.lock_id)]
    /\ ClientUnchanged

\* lines 108-109: api.logout() when is_connected
ApiLogout(t) ==
    /\ workers[t].at = "disconnect_locked"
    /\ IF call.is_connected
       THEN /\ call' = [call EXCEPT !.last_event = "logout",
                                   !.broken = @ \/ call.last_event # "login"]
            /\ At(t, "logged_out")
       ELSE /\ call' = [call EXCEPT !.held = @ \ {workers[t].lock}]
            /\ At(t, "ready")
    /\ ClientUnchanged

\* lines 110-111: is_connected = False
DisconnectReturn(t) ==
    /\ workers[t].at = "logged_out"
    /\ call' = [call EXCEPT !.bad_logout = @ \/ ~call.is_connected,
                            !.is_connected = FALSE, !.held = @ \ {workers[t].lock}]
    /\ At(t, "ready")
    /\ ClientUnchanged

\* no instance yet, every thread about to get hold of the client
InitClient ==
    /\ engine = "none"
    /\ weights = EmptyMap
    /\ log = {}
    /\ cache = EmptyMap
    /\ today = 1
    /\ ret = <<>>
    /\ pc = "idle"
    /\ idx = 1
    /\ results = <<>>
    /\ l1 = <<>>
    /\ l2 = <<>>
    /\ final = <<>>
    /\ reads = {}
    /\ config = [kind |-> "missing", w |-> EmptyMap]
    /\ universe = <<>>
    /\ store = <<>>
    /\ workers = [t \in WorkerIds |-> Thread("start", "none", 0)]
    /\ call = [op |-> "client", instances |-> 0, initialized |-> FALSE, inits |-> 0,
               is_connected |-> FALSE, lock_id |-> 0, held |-> {}, last_event |-> "none",
               broken |-> FALSE, bad_login |-> FALSE, bad_logout |-> FALSE]

NextClient ==
    \E t \in WorkerIds :
        \/ ClientNew(t)
        \/ ClientShared(t)
        \/ ClientInitTest(t)
        \/ ClientInitBody(t)
        \/ ConnectCall(t)
        \/ GetCall(t)
        \/ ConnectLock(t)
        \/ ConnectTest(t)
        \/ \E ok \in BOOLEAN : ApiLogin(t, ok)
        \/ ConnectReturn(t)
        \/ ConnectRaise(t)
        \/ Fetch(t)
        \/ DisconnectLock(t)
        \/ ApiLogout(t)
        \/ DisconnectReturn(t)

SpecClient == InitClient /\ [][NextClient]_vars

----------------------------------------------------------------------------
(* A screening run on a symbol without a meaningful valuation              *)

\* symbol 20 in each of the ways its valuation can be without meaning, its other
\* factors at their best or at their worst
DegenerateProfiles ==
    LET good == Price(150, PeOf(5), TechBull)
        funds == {FundOf(Levels(5, 5, 5, 5, 5, 5)), FundOf(Levels(1, 1, 1, 1, 1, 1))}
        P(fund, price) == Profile(fund, price, ChipBull, ShareUp)
    IN  {P(fund, PriceEmpty) : fund \in funds}
        \cup {P(FundShort, good), P(FundEmpty, good)}
        \cup {P([fund EXCEPT !.cols = AllCols \ {"eps"}], good) : fund \in funds}
        \cup {P(fund, Price(150, pe, TechBull)) :
                 fund \in funds,
                 pe \in {PeNoPositive, PeNegativeNow, PeNaNNow,
                         [PeNegativeNow EXCEPT !.cur = Num(0, 1)]}}

\* a run on symbol 20 alone, or before or after a symbol that passes every layer
InitGate ==
    /\ InitCommon
    /\ config \in Configs
    /\ universe \in {<<20>>, <<20, 1>>, <<1, 20>>}
    /\ \E profile \in DegenerateProfiles :
          store = [s \in Range(universe) |-> IF s = 20 THEN profile ELSE ProfileOf(s)]

SpecGate == InitGate /\ [][Next]_vars

----------------------------------------------------------------------------
(* A screening run followed layer by layer                                 *)

\* the large universes, and one or two of: a symbol that passes every layer, one the
\* gate rejects, one whose scoring raises, one whose chip partition and one whose
\* shareholding partition cannot be read
OrderUniverses ==
    LargeUniverses
        \cup {u \in UNION {[1..m -> {1, 2, 7, 8, 10}] : m \in 1..2} : IsInjective(u)}

InitOrder ==
    /\ InitCommon
    /\ config \in Configs
    /\ universe \in OrderUniverses
    /\ store = [s \in Range(universe) |-> ProfileOf(s)]

SpecOrder == InitOrder /\ [][Next]_vars

----------------------------------------------------------------------------
(* Properties                                                              *)

SymbolsOf(rows) == [j \in 1..Len(rows) |-> rows[j].symbol]
RowsOf(rows, symbol) == {j \in 1..Len(rows) : rows[j].symbol = symbol}
PeOrdinal(symbol) == FactorScores(symbol)["pe_relative"]
Composite(symbol) == WeightedScore(FactorScores(symbol), weights)

\* the symbols of the universe whose scoring succeeds and that pass the valuation gate
Survivors == {s \in Range(universe) : ~store[s].fault /\ PeOrdinal(s) >= 4}

\* Layer 1 has just returned its output (l1 is not assigned again in the run)
L1Returned == (pc = "L2" /\ idx = 1 /\ results = <<>>) \/ (pc = "done" /\ l1 = <<>>)

\* C1: every row of the Layer-1 output has a pe_relative ordinal score of 4 or 5, in
\* the row and, when Layer 1 returns, by the store's data; no symbol of ordinal 3 or
\* lower is in the output
C1_ValuationGate ==
    /\ \A j \in 1..Len(l1) : l1[j].pe_score \in {4, 5}
    /\ L1Returned => \A j \in 1..Len(l1) : PeOrdinal(l1[j].symbol) \in {4, 5}

\* Layer 1 has returned rows and left out a symbol of ordinal 3 or lower whose
\* composite is above that of every row it returned
C1_GatedBestSymbol ==
    /\ L1Returned
    /\ l1 # <<>>
    /\ \E s \in Range(universe) :
          /\ ~store[s].fault
          /\ PeOrdinal(s) <= 3
          /\ \E c \in {Composite(s)} : \A j \in 1..Len(l1) : c > l1[j].fundamental_score

\* C3: when Layer 1 returns, its output has at most 30 rows, in non-increasing order
\* of fundamental_score, all of them gate survivors, as many as there are survivors
\* up to 30, and no survivor left out scores above a row that is in
C3_RankedTopThirty ==
    L1Returned =>
        \E S \in {Survivors} :
            /\ Len(l1) <= 30
            /\ \A j \in 1..(Len(l1) - 1) :
                  l1[j].fundamental_score >= l1[j + 1].fundamental_score
            /\ IsInjective(SymbolsOf(l1))
            /\ Range(SymbolsOf(l1)) \subseteq S
            /\ Len(l1) = IF Cardinality(S) <= 30 THEN Cardinality(S) ELSE 30
            /\ \A j \in 1..Len(l1) : l1[j].fundamental_score = Composite(l1[j].symbol)
            /\ \A s \in S \ Range(SymbolsOf(l1)) :
                  \E c \in {Composite(s)} :
                      \A j \in 1..Len(l1) : c <= l1[j].fundamental_score

\* Layer 1 has truncated: 30 rows of differing scores, two of them equal, are out and
\* a survivor is left out
C3_Truncated ==
    /\ L1Returned
    /\ Len(l1) = 30
    /\ l1[1].fundamental_score > l1[30].fundamental_score
    /\ \E j \in 1..29 : l1[j].fundamental_score = l1[j + 1].fundamental_score
    /\ Survivors \ Range(SymbolsOf(l1)) # {}

\* the symbol's processing in Layer 3 raises: its price read, or the computation on
\* a frame of enough bars
L3Raises(symbol) ==
    \/ store[symbol].price.fail
    \/ store[symbol].price.bars >= 120 /\ store[symbol].price.tech.fail

\* fewer than 30 other survivors score as high as the symbol: it is in any top 30
SurelyTopThirty(symbol) ==
    \E c \in {Composite(symbol)} :
        Cardinality({t \in Survivors \ {symbol} : Composite(t) >= c}) < 30

C4_FinalOrder ==
    pc = "done" =>
        /\ IsInjective(SymbolsOf(final))
        /\ Range(SymbolsOf(final)) \subseteq Range(SymbolsOf(l1))
        /\ Range(SymbolsOf(l1)) \subseteq Range(universe)
        /\ \A a, b \in 1..Len(final) :
              a < b => \E x, y \in 1..Len(l1) :
                          /\ x < y
                          /\ l1[x].symbol = final[a].symbol
                          /\ l1[y].symbol = final[b].symbol

\* a table of several rows has been returned, a candidate of Layer 1 dropped on the way
C4_SeveralRowsOneDropped ==
    /\ pc = "done"
    /\ Len(final) >= 2
    /\ Len(final) < Len(l1)
    /\ final[1].fundamental_score > final[Len(final)].fundamental_score

C6_ChipHardOverride ==
    \A j \in 1..Len(l2) :
        Len(store[l2[j].symbol].chip.rows) < 5 => l2[j].chip_score = 0

\* C7: in what Layer 3 returns, a candidate whose price history is read and is empty
\* or has fewer than 120 bars has one row, of signal DATA_INSUFFICIENT and tech_score
\* 0, and a candidate with at least 120 bars has no row of signal DATA_INSUFFICIENT
C7_TechnicalDataGate ==
    pc = "done" =>
        \A j \in 1..Len(l2) :
            LET symbol == l2[j].symbol
                price == store[symbol].price
            IN  /\ (~price.fail /\ price.bars < 120) =>
                      /\ Cardinality(RowsOf(final, symbol)) = 1
                      /\ \A r \in RowsOf(final, symbol) :
                            /\ final[r].signal = "DATA_INSUFFICIENT"
                            /\ final[r].tech_score = 0
                /\ (~price.fail /\ price.bars >= 120) =>
                      \A r \in RowsOf(final, symbol) : final[r].signal # "DATA_INSUFFICIENT"

\* Layer 3 has returned the row of a candidate of 119 bars, marked DATA_INSUFFICIENT,
\* next to a scored one
C7_ShortHistoryKept ==
    /\ pc = "done"
    /\ store[1].price.bars = 119
    /\ Len(final) = 2
    /\ final[1].symbol = 1
    /\ final[1].signal = "DATA_INSUFFICIENT"
    /\ final[1].tech_score = 0
    /\ final[2].signal # "DATA_INSUFFICIENT"

\* C8: a row Layer 3 has scored for a candidate with at least 120 bars has exactly
\* one of five signals: STRONG_BUY iff tech_score >= 65, BUY iff 50 <= tech_score < 65,
\* WATCH iff 35 <= tech_score < 50, and below 35 OVERBOUGHT_REDUCE iff bias_60 > 20,
\* HOLD otherwise
C8_SignalMapping ==
    \A j \in 1..Len(results) :
        (pc = "L3" /\ store[results[j].symbol].price.bars >= 120) =>
            LET tech_score == results[j].tech_score
                signal == results[j].signal
                overbought == VGt(results[j].bias_60, Num(20, 1))
            IN  /\ signal \in {"STRONG_BUY", "BUY", "WATCH", "OVERBOUGHT_REDUCE", "HOLD"}
                /\ signal = "STRONG_BUY" <=> tech_score >= 65
                /\ signal = "BUY" <=> (50 <= tech_score /\ tech_score < 65)
                /\ signal = "WATCH" <=> (35 <= tech_score /\ tech_score < 50)
                /\ signal = "OVERBOUGHT_REDUCE" <=> (tech_score < 35 /\ overbought)
                /\ signal = "HOLD" <=> (tech_score < 35 /\ ~overbought)

\* Layer 3 has scored a candidate at exactly 65 points, STRONG_BUY, and one below 35
\* with bias_60 above 20, OVERBOUGHT_REDUCE
C8_BoundaryScored ==
    /\ pc = "L3"
    /\ Len(results) = 2
    /\ results[1].tech_score = 65
    /\ results[1].signal = "STRONG_BUY"
    /\ results[2].tech_score < 35
    /\ results[2].signal = "OVERBOUGHT_REDUCE"

\* the sum of the loaded weights, in hundredths
WeightTotal == SumSeq([j \in 1..Len(FactorOrder) |->
                          IF FactorOrder[j] \in DOMAIN weights THEN weights[FactorOrder[j]] ELSE 0])

\* the engine holds seven weights that sum to 1.0
SevenWeightsSumToOne == DOMAIN weights = FactorNames /\ WeightTotal = 100

\* the composite of the last call, from the seven ordinal scores of its symbol
ReferenceComposite ==
    LET sc == FactorScores(ret[1])
    IN  40 * (sc["roe"] * weights["roe"] + sc["eps_yoy"] * weights["eps_yoy"]
              + sc["fcf"] * weights["fcf"]
              + sc["gross_margin_trend"] * weights["gross_margin_trend"]
              + sc["revenue_yoy"] * weights["revenue_yoy"]
              + sc["debt_ratio"] * weights["debt_ratio"]
              + sc["pe_relative"] * weights["pe_relative"])

C10_WeightSumChecked ==
    (engine = "ready" /\ ret # <<>> /\ ret[3] = "computed") => WeightTotal = 100

\* weights.get(f, 0)
WeightOf(f) == IF f \in DOMAIN weights THEN weights[f] ELSE 0

\* the ordinal score a factor is due in a call for symbol: 1 when its own calculation
\* raises, that of its own raw value otherwise
DueScore(f, symbol) ==
    IF fundamental_factors(f, symbol).ok
    THEN _score_factor(f, fundamental_factors(f, symbol).v)
    ELSE 1

\* C11: when the calculation of some factor raises (a partition that cannot be read,
\* the missing columns of ROE), calculate_fundamental_score still returns: the
\* composite counts that factor with ordinal score 1 and each other factor with the
\* score of its own raw value, and the cache holds it under the symbol and the day of
\* the call
C11_FactorContainment ==
    (ret # <<>> /\ FailedFactors(ret[1]) # {}) =>
        /\ ret[2] = 40 * (DueScore("roe", ret[1]) * WeightOf("roe")
                          + DueScore("gross_margin_trend", ret[1]) * WeightOf("gross_margin_trend")
                          + DueScore("debt_ratio", ret[1]) * WeightOf("debt_ratio")
                          + DueScore("fcf", ret[1]) * WeightOf("fcf")
                          + DueScore("revenue_yoy", ret[1]) * WeightOf("revenue_yoy")
                          + DueScore("eps_yoy", ret[1]) * WeightOf("eps_yoy")
                          + DueScore("pe_relative", ret[1]) * WeightOf("pe_relative"))
        /\ \E d \in 1..today : /\ <<ret[1], d>> \in DOMAIN cache
                               /\ cache[<<ret[1], d>>] = ret[2]

\* a composite has been computed for a symbol of which one factor alone raises while
\* the other six score above 1 from their own data
C11_OneFactorRaised ==
    /\ ret # <<>>
    /\ ret[3] = "computed"
    /\ Cardinality(FailedFactors(ret[1])) = 1
    /\ \A f \in FactorNames \ FailedFactors(ret[1]) : DueScore(f, ret[1]) > 1
    /\ weights = default_weights
    /\ ret[2] > 4000

\* C12: a call of calculate_fundamental_score leaves the composite it returns in the
\* cache under the symbol and the day of the call; entries of the cache are never
\* removed or changed; and a call for a symbol that has an entry for the current day
\* returns that entry, runs no factor calculation and reads no partition
C12_PerDayMemoization ==
    [][/\ \A key \in DOMAIN cache : key \in DOMAIN cache' /\ cache'[key] = cache[key]
       /\ (ret' # ret) =>
            /\ <<ret'[1], today>> \in DOMAIN cache'
            /\ cache'[<<ret'[1], today>>] = ret'[2]
            /\ (<<ret'[1], today>> \in DOMAIN cache) =>
                  /\ ret'[2] = cache[<<ret'[1], today>>]
                  /\ ret'[3] = "cached"
                  /\ ret'[4] = {}
                  /\ cache' = cache
                  /\ log' = log]_vars

\* the engine has computed a symbol's composite, has been asked for another symbol,
\* and has then answered the first symbol again from the cache
C12_SecondCallSameDay ==
    /\ ret # <<>>
    /\ ret[3] = "cached"
    /\ Cardinality({key \in DOMAIN cache : key[2] = today}) = 2

\* the reference threshold tables: the four thresholds of each factor, the best first
ReferenceThresholds ==
    [roe |-> <<Num(20, 1), Num(15, 1), Num(10, 1), Num(5, 1)>>,
     eps_yoy |-> <<Num(30, 1), Num(15, 1), Num(0, 1), Num(-10, 1)>>,
     fcf |-> <<Num(5000, 1), Num(1000, 1), Num(0, 1), Num(-1000, 1)>>,
     gross_margin_trend |-> <<Num(2, 1), Num(1, 2), Num(-1, 2), Num(-2, 1)>>,
     revenue_yoy |-> <<Num(20, 1), Num(10, 1), Num(0, 1), Num(-5, 1)>>,
     debt_ratio |-> <<Num(30, 1), Num(50, 1), Num(70, 1), Num(85, 1)>>,
     pe_relative |-> <<Num(-1, 1), Num(0, 1), Num(1, 1), Num(2, 1)>>]

\* a direct factor scores 1 plus the number of its thresholds at or below the raw
\* value, an inverse factor 1 plus the number at or above it; NaN meets none
ReferenceScore(factor_name, raw_value) ==
    IF factor_name \notin {"roe", "eps_yoy", "fcf", "gross_margin_trend", "revenue_yoy",
                           "debt_ratio", "pe_relative"} THEN 3
    ELSE LET t == ReferenceThresholds[factor_name]
         IN  1 + Cardinality({j \in 1..4 :
                    IF factor_name \in {"debt_ratio", "pe_relative"}
                    THEN VLe(raw_value, t[j]) ELSE VGe(raw_value, t[j])})

\* C13: _score_factor agrees with the reference threshold tables on every factor name
\* and raw value: the score of the best threshold the value meets, boundaries
\* included, 3 for an unknown factor name, 1 for a value that meets no threshold
C13_OrdinalScoring ==
    (call # <<>> /\ call.op = "_score_factor" /\ call.returned) =>
        /\ call.out = ReferenceScore(call.factor_name, call.raw_value)
        /\ (call.factor_name = "roe" /\ call.raw_value = Num(200, 10)) => call.out = 5
        /\ (call.factor_name = "roe" /\ call.raw_value = Num(19999, 1000)) => call.out = 4
        /\ (call.factor_name = "debt_ratio" /\ call.raw_value = Num(300, 10)) => call.out = 5
        /\ (call.factor_name = "pe_relative" /\ call.raw_value = Num(20, 10)) => call.out = 2
        /\ (call.factor_name = "pe_relative" /\ call.raw_value = Num(20001, 10000))
               => call.out = 1
        /\ call.factor_name = "unknown_factor" => call.out = 3
        /\ IsNaN(call.raw_value) /\ call.factor_name # "unknown_factor" => call.out = 1

\* _score_factor has returned 5 for a debt ratio of exactly 30
C13_InclusiveBoundary ==
    /\ call # <<>>
    /\ call.op = "_score_factor"
    /\ call.returned
    /\ call.factor_name = "debt_ratio"
    /\ call.raw_value = Num(300, 10)
    /\ call.out = 5

\* the universe without the symbols whose scoring raises in Layer 1
WithoutL1Failures(u) == SelectSeq(u, LAMBDA s : ~store[s].fault)

\* the tables Layer 1 can return for a universe u in which no scoring raises: the
\* rows of the symbols that pass the gate, in the order of u, sorted and cut
Layer1Outputs(u) ==
    LET scored == [j \in 1..Len(u) |->
                      LET details == calculate_fundamental_details(u[j])
                      IN  [symbol |-> u[j],
                           stock_name |-> get_stock_name(u[j]),
                           fundamental_score |-> details.total_score,
                           pe_score |-> PeScoreOf(details.factors),
                           fundamental_details |-> details.factors]]
        rows == SelectSeq(scored, LAMBDA r : PassesGate(r.pe_score))
    IN  {head(sorted, TopN) : sorted \in sort_values(rows)}

\* the table of candidates without those whose processing raises in Layer 3
WithoutL3Failures(rows) == SelectSeq(rows, LAMBDA r : ~L3Raises(r.symbol))

\* the table Layer 3 returns for candidates of which none raises
Layer3Output(rows) ==
    [j \in 1..Len(rows) |->
        LET df == read_symbol_partition(rows[j].symbol)
        IN  SetFields(rows[j], IF HasEnoughBars(df) THEN TechFields(df.tech)
                               ELSE InsufficientFields)]

\* C14: what Layer 1 returns is a table it can return for the universe without the
\* symbols whose scoring raised, and what Layer 3 returns is the table it returns for
\* the candidates without those whose processing raised: a failing symbol is missing
\* from its layer's output and changes no other row of it
C14_FailSoftPerSymbol ==
    /\ L1Returned => l1 \in Layer1Outputs(WithoutL1Failures(universe))
    /\ (pc = "done" /\ l2 # <<>>) => final = Layer3Output(WithoutL3Failures(l2))

\* a run has ended in which Layer 1 lost a symbol to a scoring failure and still
\* returned a row for a symbol that came after it, or Layer 3 lost a candidate to a
\* failure and still returned the row of a candidate that came after it
C14_BatchWentOn ==
    /\ pc = "done"
    /\ final # <<>>
    /\ \/ \E a, b \in 1..Len(universe) :
             a < b /\ store[universe[a]].fault /\ RowsOf(l1, universe[b]) # {}
       \/ \E a, b \in 1..Len(l2) :
             a < b /\ L3Raises(l2[a].symbol) /\ RowsOf(final, l2[b].symbol) # {}

\* C15: screen_stocks propagates no exception raised while a symbol's fundamental
\* factors, chip sub-scores or technical sub-scores are computed, whatever the store
\* holds for the symbol: no call of screen_stocks ends with an exception, so that a
\* candidate whose chip data cannot be read leaves the batch to go on
C15_ContainmentAcrossLayers == pc # "raised"

\* C16: once Layer 1 is over for an empty universe, or for a universe of which no
\* symbol is scored and passes the gate, screen_stocks has returned, without raising,
\* an empty table: Layers 2 and 3 are not entered, so no chip, shareholding or
\* Layer-3 price partition is read
C16_EmptyIsTerminal ==
    (pc \notin {"idle", "L1"} /\ (universe = <<>> \/ Survivors = {})) =>
        /\ pc = "done"
        /\ final = <<>>
        /\ l1 = <<>>
        /\ l2 = <<>>
        /\ reads = {}

\* screen_stocks has returned for a universe of two symbols, one gated out and one
\* whose scoring raised
C16_NothingSurvived ==
    /\ pc = "done"
    /\ Len(universe) = 2
    /\ Survivors = {}
    /\ \E s \in Range(universe) : store[s].fault
    /\ \E s \in Range(universe) : ~store[s].fault /\ PeOrdinal(s) <= 3
    /\ final = <<>>

\* what an engine that has served no call returns for the symbol on the store as it
\* is: with nothing in its cache it runs step 2 on the store's current partitions
FreshEngineScore(symbol) == WeightedScore(FactorScores(symbol), weights)

\* C17: whatever calls an engine has served before, and whatever the store held at
\* the time, a call of calculate_fundamental_score returns what an engine of the same
\* weights without any history returns on the current store
C17_NoHiddenHistory ==
    [][(ret' # ret) => ret'[2] = FreshEngineScore(ret'[1])]_vars

\* the composite a single caller gets for the symbol from the store
SequentialScore(symbol) == WeightedScore(FactorScores(symbol), weights)

\* C18: under every interleaving of the steps of parallel calls, two calls for
\* different symbols hold different keys; every entry of the cache lies under the
\* symbol and day of a call and holds the sequentially computed composite of its own
\* symbol; and every call that has returned has returned that composite, which is
\* the one entry the cache has for its symbol and day
C18_CacheUnderConcurrency ==
    /\ \A v, w \in DOMAIN workers :
          (workers[v].at # "idle" /\ workers[w].at # "idle"
           /\ workers[v].symbol # workers[w].symbol) => workers[v].key # workers[w].key
    /\ \A key \in DOMAIN cache :
          /\ key \in Range(universe) \X (1..today)
          /\ cache[key] = SequentialScore(key[1])
    /\ \A w \in DOMAIN workers :
          workers[w].at = "returned" =>
              /\ workers[w].value = SequentialScore(workers[w].symbol)
              /\ \E d \in 1..today :
                    /\ workers[w].key = <<workers[w].symbol, d>>
                    /\ workers[w].key \in DOMAIN cache
                    /\ cache[workers[w].key] = workers[w].value

\* two workers have both computed the composite of the same symbol on the same day,
\* one has written it and returned, the other is about to write, while the cache
\* also holds the different composite of another symbol
C18_RacingWriters ==
    /\ DOMAIN workers = {1, 2}
    /\ workers[1].at = "returned"
    /\ workers[2].at = "write"
    /\ workers[1].key = workers[2].key
    /\ \E key \in DOMAIN cache : key[1] # workers[1].symbol /\ cache[key] # workers[1].value

Signals == {"STRONG_BUY", "BUY", "WATCH", "HOLD", "OVERBOUGHT_REDUCE", "DATA_INSUFFICIENT"}

\* C19: every row of the table screen_stocks returns carries its three composites and
\* its signal: chip_score and tech_score are integers from 0 to 100, signal is one of
\* the six signals, and fundamental_score is a number, whatever the store lacks for
\* the symbol (no or too few net-flow rows, no shareholding rows, too few bars)
C19_ScoreDomains ==
    \A j \in 1..Len(final) :
        /\ {"fundamental_score", "chip_score", "tech_score", "signal"} \subseteq DOMAIN final[j]
        /\ final[j].chip_score \in 0..100
        /\ final[j].tech_score \in 0..100
        /\ final[j].signal \in Signals
        /\ final[j].fundamental_score \in Int

\* a table has been returned with a row at the top of both scales and a row of a
\* symbol with too few bars and too few net-flow rows
C19_ExtremeRows ==
    /\ pc = "done"
    /\ \E j \in 1..Len(final) : final[j].chip_score = 100 /\ final[j].tech_score = 100
    /\ \E j \in 1..Len(final) :
          /\ final[j].signal = "DATA_INSUFFICIENT"
          /\ final[j].tech_score = 0
          /\ Len(store[final[j].symbol].chip.rows) < 5

\* C20: the chip_score and chip_details of a candidate with at least five net-flow
\* rows are those of the store that holds nothing but its last five net-flow rows and
\* its last two shareholding rows: rows before them change neither (so any two stores
\* that agree on these rows give the same chip_score and chip_details)
C20_ChipLookbackWindow ==
    (call # <<>> /\ call.op = "chip_score" /\ call.returned) =>
        /\ call.out_b.chip_score = call.out_a.chip_score
        /\ call.out_b.chip_details = call.out_a.chip_details

\* the candidate has been scored on a store whose earlier rows would lengthen the
\* streak of trust buying and turn the shareholding trend, had they been looked at
C20_EarlierRowsDiffer ==
    /\ call # <<>>
    /\ call.op = "chip_score"
    /\ call.returned
    /\ Len(call.b.chip.rows) > 5
    /\ \A j \in 1..Len(call.b.chip.rows) : call.b.chip.rows[j].trust_net > 0
    /\ Len(call.b.share.rows) > 2
    /\ call.b.share.rows[1] > call.b.share.rows[Len(call.b.share.rows)]
    /\ call.out_b.chip_score = 100

\* the chip score as the analysis script (analyze_screening.py) and the specification
\* state it, for a frame of at least five net-flow rows
ReferenceChipScore(chip_rows, share_rows) ==
    LET n == Len(chip_rows)
        last(j) == chip_rows[n - j + 1]
        streak == SetMax({m \in 0..5 : \A j \in 1..m : last(j).trust_net > 0})
        foreign_sum == last(1).foreign_net + last(2).foreign_net + last(3).foreign_net
                       + last(4).foreign_net + last(5).foreign_net
        dealer_sum == last(1).dealer_net + last(2).dealer_net + last(3).dealer_net
                      + last(4).dealer_net + last(5).dealer_net
        total_sum == last(1).total_net + last(2).total_net + last(3).total_net
                     + last(4).total_net + last(5).total_net
        trust == IF streak >= 5 THEN 30 ELSE IF streak >= 3 THEN 20
                 ELSE IF streak >= 1 THEN 10 ELSE 0
        foreign == IF foreign_sum > 5 * 1000 /\ last(1).foreign_net > 0 THEN 25
                   ELSE IF foreign_sum > 0 THEN 15
                   ELSE IF foreign_sum > 5 * (-1000) THEN 5 ELSE 0
        dealer == IF dealer_sum > 0 THEN 15 ELSE IF dealer_sum > -500 THEN 8 ELSE 0
        total == IF total_sum > 5000 THEN 20 ELSE IF total_sum > 1000 THEN 15
                 ELSE IF total_sum > 0 THEN 10 ELSE 0
        m == Len(share_rows)
        holder == IF m < 2 THEN 0
                  ELSE IF share_rows[m] - share_rows[m - 1] > 50 THEN 10
                  ELSE IF share_rows[m] - share_rows[m - 1] >= 0 THEN 5 ELSE 0
    IN  trust + foreign + dealer + total + holder

\* C21: for a candidate with at least five net-flow rows, chip_score is the sum of the
\* five reference sub-scores: trust 30/20/10/0 by the streak of trust_net > 0 counted
\* back from the latest day, foreign 25/15/5/0 by the five-day mean and the latest
\* day, dealer 15/8/0 and total 20/15/10/0 by the five-day sums, holder 10/5/0 by the
\* change of major_ratio, 0 with fewer than two shareholding rows
C21_ChipComposite ==
    (call # <<>> /\ call.op = "chip_composite" /\ call.returned) =>
        call.out.chip_score = ReferenceChipScore(call.chip.rows, call.share.rows)

\* a candidate has been scored whose trust streak is broken inside the window, whose
\* foreign mean is above 1000 with selling on the latest day, and whose major_ratio
\* rose by exactly 0.5
C21_BrokenStreakScored ==
    /\ call # <<>>
    /\ call.op = "chip_composite"
    /\ call.returned
    /\ \E rows \in {call.chip.rows} :
          /\ Len(rows) = 6
          /\ rows[6].trust_net > 0 /\ rows[5].trust_net > 0 /\ rows[4].trust_net <= 0
          /\ rows[3].trust_net > 0
          /\ rows[6].foreign_net <= 0
          /\ ColTotal(TailK(rows, 5), "foreign_net") > 5000
    /\ call.share.rows = <<4000, 4050>>
    /\ call.out.chip_score = 10 + 15 + 8 + 20 + 5

\* the five sub-scores the specification tabulates, from the latest indicator values
ReferenceMa(t) ==
    CASE t.price > t.ma20 /\ t.ma20 > t.ma60 /\ t.ma60 > t.ma120 -> 25
      [] ~(t.ma60 > t.ma120) /\ t.price > t.ma20 /\ t.ma20 > t.ma60 -> 20
      [] ~(t.price > t.ma20 /\ t.ma20 > t.ma60) /\ t.price > t.ma60 -> 15
      [] ~(t.price > t.ma60) /\ t.price > t.ma120 -> 10
      [] ~(t.price > t.ma60) /\ ~(t.price > t.ma120) -> 0
ReferenceMacd(m) ==
    CASE m.line > m.signal /\ m.hist > 0 /\ m.hist > m.prev_hist -> 20
      [] m.line > m.signal /\ m.hist > 0 /\ ~(m.hist > m.prev_hist) -> 15
      [] ~(m.line > m.signal /\ m.hist > 0) /\ m.line > 0 -> 10
      [] ~(m.line > m.signal /\ m.hist > 0) /\ ~(m.line > 0) -> 0
ReferenceRsi(rsi) ==
    CASE 40 <= rsi /\ rsi <= 70 -> 15
      [] 30 <= rsi /\ rsi < 40 -> 10
      [] rsi > 70 -> 5
      [] rsi < 30 -> 0
ReferenceKd(k, d) ==
    CASE k > d /\ k < 80 -> 15
      [] k > d /\ k >= 80 -> 10
      [] ~(k > d) /\ 20 <= k /\ k <= 50 -> 8
      [] ~(k > d) /\ ~(20 <= k /\ k <= 50) -> 0
\* the ratio of the 5-day mean to the preceding-20-day mean, a positive mean
ReferenceVolume(vol5, vol20) ==
    CASE 10 * vol5 > 15 * vol20 -> 15
      [] 10 * vol5 <= 15 * vol20 /\ 10 * vol5 > 12 * vol20 -> 12
      [] 10 * vol5 <= 12 * vol20 /\ 10 * vol5 > 10 * vol20 -> 8
      [] 10 * vol5 <= 10 * vol20 -> 0

ReferenceFive(t) ==
    ReferenceMa(t)
    + (IF t.macd = <<>> THEN 0 ELSE ReferenceMacd(t.macd[1]))
    + (IF t.rsi = <<>> THEN 0 ELSE ReferenceRsi(t.rsi[1]))
    + (IF t.kd = <<>> THEN 0 ELSE ReferenceKd(t.kd[1].k, t.kd[1].d))
    + ReferenceVolume(t.vol5, t.vol20)

ReferenceTechScore(t) == ReferenceFive(t) + BbandsPoints(t).pts

\* C22: the tech_score of a candidate Layer 3 scores is the sum of the six sub-scores
\* of the latest indicator values: MA trend 25/20/15/10/0, MACD 20/15/10/0, RSI
\* 15/10/5/0, KD 15/10/8/0, volume 15/12/8/0 and the Bollinger sub-score; bias_60 is
\* stored in the row and adds nothing to tech_score
C22_TechComposite ==
    (call # <<>> /\ call.op = "tech_position" /\ call.returned /\ call.out.appended
     /\ "tech_details" \in DOMAIN call.out.row) =>
        /\ call.out.row.tech_score = ReferenceTechScore(call.df.tech)
        /\ "bias_60" \in DOMAIN call.out.row
        /\ call.out.row.bias_60 = Bias60(call.df.tech)

\* a candidate has been scored 20 + 15 + 10 + 8 + 8 + 8, its close 11 % above its
\* 60-bar mean
C22_SixPartialScores ==
    /\ call # <<>>
    /\ call.op = "tech_position"
    /\ call.returned
    /\ call.out.appended
    /\ call.out.row.tech_score = 69
    /\ VGt(call.out.row.bias_60, Num(11, 1))
    /\ \E t \in {call.df.tech} :
          /\ t.price > t.ma20 /\ t.ma20 > t.ma60 /\ ~(t.ma60 > t.ma120)
          /\ t.macd # <<>> /\ t.macd[1].hist = t.macd[1].prev_hist
          /\ t.rsi = <<39>>
          /\ t.kd # <<>> /\ t.kd[1].k = 50 /\ t.kd[1].d > 50
          /\ 10 * t.vol5 = 12 * t.vol20

\* C23: with the bands available, the Bollinger sub-score of a scored candidate is 10
\* for a close from the lower to the middle band, 8 from the middle band to the
\* midpoint of middle and upper band, 5 below the lower band, and 0 only for a close
\* at or above that midpoint; a close exactly on the lower or on the middle band is
\* not scored 0
C23_BandCoverage ==
    (call # <<>> /\ call.op = "tech_position" /\ call.returned /\ call.out.appended
     /\ "tech_details" \in DOMAIN call.out.row /\ call.df.tech.bb # <<>>) =>
        LET t == call.df.tech
            b == t.bb[1]
            sub_score == call.out.row.tech_score - ReferenceFive(t)
        IN  /\ sub_score \in {0, 5, 8, 10}
            /\ sub_score = 10 => b.lower <= t.price /\ t.price <= b.middle
            /\ sub_score = 8 => b.middle <= t.price /\ 2 * t.price < b.middle + b.upper
            /\ sub_score = 5 => t.price < b.lower
            /\ sub_score = 0 => 2 * t.price >= b.middle + b.upper

\* the iteration for a candidate whose frame was read and has at least 120 bars is over
TechCallDone ==
    /\ call # <<>>
    /\ call.op = "tech_position"
    /\ call.returned
    /\ ~call.df.fail
    /\ call.df.bars >= 120

C25_RoeDegradation ==
    (call # <<>> /\ call.op = "factors" /\ call.returned) =>
        LET df == store[1].fund
            last4 == TailK(df.rows, 4)
            present == {"net_income", "equity"} \subseteq df.cols
            degraded == Len(df.rows) < 4 \/ \E j \in 1..Len(last4) : last4[j].equity.n <= 0
        IN  /\ ~present => ~call.out["roe"].ok
            /\ (present /\ degraded) => call.out["roe"] = Ret(Num(0, 1))
            /\ \A f \in FactorNames \ {"roe"} : call.out[f].ok
            /\ (~present \/ degraded) => call.scores["roe"] = 1

\* a partition has one row per date, in ascending order of date, and for every date
\* written the row of the latest write that held the date
DedupSorted(file, latest) ==
    /\ \A a, b \in 1..Len(file.rows) : a < b => file.rows[a].date < file.rows[b].date
    /\ \A d \in WriteDates :
          latest[d] # {} =>
              \E j \in 1..Len(file.rows) : file.rows[j].date = d /\ file.rows[j].v \in latest[d]
    /\ \A j \in 1..Len(file.rows) : latest[file.rows[j].date] # {}

\* C26: after any sequence of write_chip_data (or write_shareholding_data) calls for a
\* symbol, the first write to a new partition and batches with repeated dates
\* included, the stored series has at most one row per date, is sorted ascending by
\* date, and holds for each date the row of the most recent write with that date
C26_AppendAndDedup ==
    (call # <<>> /\ call.op = "writes") =>
        /\ DedupSorted(store[1].chip, call.chip)
        /\ DedupSorted(store[1].share, call.share)

\* C27: the constructions of ShioajiClient in one process all yield one instance,
\* initialised once; however the threads interleave, api.login is never invoked while
\* is_connected is true and api.logout never while it is false, successful logins and
\* logouts alternate, and a failed login leaves is_connected false
C27_SingleLiveConnection ==
    (call # <<>> /\ call.op = "client") =>
        /\ call.instances <= 1
        /\ call.inits <= 1
        /\ ~call.bad_login
        /\ ~call.bad_logout
        /\ ~call.broken
        /\ \A t \in DOMAIN workers : workers[t].at = "login_failed" => ~call.is_connected

\* the valuation of the symbol cannot be formed: no price history, fewer than five
\* quarters, no eps column, or no positive PE in the series
NoPeBand(symbol) ==
    LET fund == store[symbol].fund
        price == store[symbol].price
    IN  /\ ~fund.fail /\ ~price.fail
        /\ \/ price.bars = 0
           \/ Len(fund.rows) < 5
           \/ "eps" \notin fund.cols
           \/ price.pe.npos = 0

\* the PE band can be formed and the current PE is not positive or is NaN
NoCurrentPe(symbol) ==
    LET fund == store[symbol].fund
        price == store[symbol].price
    IN  /\ ~fund.fail /\ ~price.fail
        /\ ~NoPeBand(symbol)
        /\ "date" \in fund.cols
        /\ price.pe.cur.k = "nan" \/ (price.pe.cur.k = "num" /\ price.pe.cur.n <= 0)

\* C28: a symbol without price history, with fewer than five quarters, without eps
\* column or without a positive PE observation has pe_relative 1.0 and ordinal 3; one
\* whose current PE is not positive or NaN has 2.0 and ordinal 2; no such symbol is
\* ever in the Layer-1 output or in the final table, whatever its other six scores
C28_DegenerateValuationGated ==
    \A s \in Range(universe) :
        /\ NoPeBand(s) => /\ _calculate_pe_relative(s) = Ret(Num(1, 1))
                          /\ FactorScores(s)["pe_relative"] = 3
        /\ NoCurrentPe(s) => /\ _calculate_pe_relative(s) = Ret(Num(2, 1))
                             /\ FactorScores(s)["pe_relative"] = 2
        /\ (NoPeBand(s) \/ NoCurrentPe(s)) =>
              /\ RowsOf(results, s) = {}
              /\ RowsOf(l1, s) = {}
              /\ RowsOf(l2, s) = {}
              /\ RowsOf(final, s) = {}

\* a run has returned the row of the second symbol only: the first has its other six
\* factors at 5 and a current PE that is not positive
C28_BestOtherFactorsGated ==
    /\ pc = "done"
    /\ universe = <<20, 1>>
    /\ NoCurrentPe(20)
    /\ \A f \in FactorNames \ {"pe_relative"} : FactorScores(20)[f] = 5
    /\ SymbolsOf(final) = <<1>>

\* u <= v on the raw values of the scoring calls; the two values of magnitude 10^6 are
\* beyond every other number and are ordered by their sign, two values of one
\* denominator by their numerators
Far(a) == a.k = "num" /\ a.d = 1 /\ Abs(a.n) >= 1000000
AtMost(u, v) ==
    IF u.k = "num" /\ v.k = "num" /\ (Far(u) \/ Far(v))
    THEN (IF Far(u) THEN u.n < 0 \/ u = v ELSE v.n > 0)
    ELSE IF u.k = "num" /\ v.k = "num" /\ u.d = v.d THEN u.n <= v.n
    ELSE VLe(u, v)

\* the raw values off the grid of tenths
OffGrid == {v \in RawValues : ~(v.k = "num" /\ v.d = 10)}

\* the values a raw value is compared with: a tenth with the next tenth on either
\* side and with every value off the grid, a value off the grid with every value; the
\* order of two tenths further apart follows from the tenths between them
Compared(v) ==
    IF v.k = "num" /\ v.d = 10
    THEN OffGrid \cup ({Num(v.n - 1, 10), Num(v.n + 1, 10)} \cap RawValues)
    ELSE RawValues

\* C29: for every factor name and raw value, NaN and the infinities included,
\* _score_factor returns an integer in 1..5; the score of roe, gross_margin_trend, fcf,
\* revenue_yoy and eps_yoy does not decrease with the raw value and the score of
\* debt_ratio and pe_relative does not increase with it; NaN scores 1 for every known
\* factor
C29_BoundedMonotone ==
    (call # <<>> /\ call.op = "_score_factor" /\ call.returned) =>
        LET f == call.factor_name
            v == call.raw_value
        IN  /\ call.out \in 1..5
            /\ f \in {"roe", "gross_margin_trend", "fcf", "revenue_yoy", "eps_yoy"} =>
                  \A u \in Compared(v) :
                      /\ AtMost(u, v) => _score_factor(f, u) <= call.out
                      /\ AtMost(v, u) => call.out <= _score_factor(f, u)
            /\ f \in {"debt_ratio", "pe_relative"} =>
                  \A u \in Compared(v) :
                      /\ AtMost(u, v) => _score_factor(f, u) >= call.out
                      /\ AtMost(v, u) => call.out >= _score_factor(f, u)
            /\ (IsNaN(v) /\ f \in FactorNames) => call.out = 1

\* a NaN valuation has been scored 1, below the score of every number
C29_NaNScoredLowest ==
    /\ call # <<>>
    /\ call.op = "_score_factor"
    /\ call.returned
    /\ call.factor_name = "pe_relative"
    /\ IsNaN(call.raw_value)
    /\ call.out = 1
    /\ _score_factor("pe_relative", NegInf) = 5
    /\ _score_factor("pe_relative", PosInf) = 1

\* the position of a run among its layers
LayerRank(p) ==
    CASE p = "idle" -> 0 [] p = "L1" -> 1 [] p = "L2" -> 2 [] p = "L3" -> 3
      [] p \in {"done", "raised"} -> 4

\* chip and shareholding partitions are read only of symbols in the Layer-1 output,
\* none of them gated, failing in Layer 1 or cut off by the top thirty
ReadScope ==
    \A r \in reads :
        r[1] \in {"chip", "share"} =>
            /\ pc \in {"L2", "L3", "done", "raised"}
            /\ RowsOf(l1, r[2]) # {}
            /\ ~store[r[2]].fault
            /\ PeOrdinal(r[2]) >= 4

\* a step of a run: Layer 2 is entered from Layer 1 past the last universe symbol,
\* Layer 3 from Layer 2 past the last candidate, and no step leads to an earlier layer
\* or to an earlier row of the same layer
LayerOrder ==
    /\ (pc = "L1" /\ pc' # "L1") => idx > Len(universe)
    /\ pc' = "L2" => pc \in {"L1", "L2"}
    /\ (pc = "L2" /\ pc' \notin {"L2", "raised"}) => idx > Len(l1)
    /\ pc' = "L3" => pc \in {"L2", "L3"}
    /\ LayerRank(pc') >= LayerRank(pc)
    /\ pc' = pc => idx' >= idx

\* C30: within one screen_stocks run Layer 2 starts only after Layer 1 has processed
\* every universe symbol and Layer 3 only after Layer 2 has processed every candidate;
\* chip and shareholding data are read only for symbols of the Layer-1 output, never
\* for one rejected by the valuation gate, excluded by a Layer-1 exception or cut off
\* beyond the top 30; control never returns to an earlier layer
C30_LayerOrderAndReadScope == [](ReadScope) /\ [][LayerOrder]_vars

\* a run over the large universe has ended with rows: chip data were read of exactly
\* the thirty symbols of the Layer-1 output, and neither of the symbol the gate
\* rejected nor of the survivor cut off by the top thirty
C30_ThirtyRead ==
    /\ pc = "done"
    /\ final # <<>>
    /\ Len(universe) = LargeUniverse
    /\ Len(l1) = TopN
    /\ {r[2] : r \in {q \in reads : q[1] = "chip"}} = Range(SymbolsOf(l1))
    /\ \E s \in Range(universe) : PeOrdinal(s) < 4 /\ <<"chip", s>> \notin reads
    /\ \E s \in Survivors : RowsOf(l1, s) = {} /\ <<"chip", s>> \notin reads

====
